---------------------------- MODULE Spec2Model ----------------------------
(***************************************************************************)
(* State-machine model of the Newton drivers of                            *)
(* src/modules/solver/solver_nonlin.py and of the lumped-model helpers of  *)
(* src/modules/flow0d/cardiovascular0D.py.                                 *)
(*                                                                         *)
(* Norms and tolerances are naturals in a common unit.  The vectors of the *)
(* lumped model are functions on 0..numdof-1 with integer entries.         *)
(***************************************************************************)
EXTENDS Integers, FiniteSets, Sequences, TLC

(***************************************************************************)
(* Bounds of the model.                                                    *)
(***************************************************************************)
\* largest configured solver_params['maxiter']
MaxIterCfg == 3

\* values a residual or increment norm takes in one iteration
Norms == {1, 2}

\* values of the configured tolerances tol_res / tol_inc
TolValues == {1}

\* number of unknowns of the lumped model (self.numdof of the derived classes)
numdof == 2

\* entries of the assembled residual and tangent, and of the unknown vector
Entries == {0, 1}

\* values a prescribed variable is given by its time curve
PVals == {0, 2}

\* entries of an increment the linear solve returns
DVals == -2..2

\* window the unknowns of the lumped model are kept in
XVals == 0..2

\* number of time steps (ticks) a run of the cycle monitor takes
MaxT == 6

\* values of the unknowns handed to cycle_check
CVals == {0, 2}

\* largest cycle index handed to induce_perturbation
MaxCycle == 3

(***************************************************************************)
(* Constants of the program.                                               *)
(***************************************************************************)
\* solver_nonlin.py:242 and :686  (counter_adapt, max_adapt = 0, 50)
max_adapt == 50

\* solver_nonlin.py:421 and :1066  (self.maxiter = 250)
maxiter_PTC == 250

VARIABLES
    \* ---- solver object (solver_nonlinear / ..._constraint_monolithic) ----
    kind,           \* "std": solver_nonlinear, "mono": solver_nonlinear_constraint_monolithic
    two_field,      \* pb.incompressible_2field
    coupling,       \* pbc.coupling_type ("none" for the std solver)
    divcont,        \* self.divcont: "PTC" or "None"
    maxiter,        \* self.maxiter
    PTC,            \* self.PTC
    tolerances,     \* self.tolerances
    \* ---- one newton call ----
    pc,             \* "idle", "iterating", "converged" (normal return), "failed" (RuntimeError)
    it,             \* Newton iteration index
    counter_adapt,  \* retry counter
    err,            \* result of catch_solver_errors in the last iteration
    converged,      \* result of check_converged in the last iteration
    resnorms,       \* dictionaries of the iteration that left the loop
    incnorms,
    upd,            \* unknown blocks the last iteration added an increment to
    rst,            \* unknown blocks the last iteration reset to their start vector
    \* ---- lumped model: unknowns, residual, tangent ----
    x,              \* unknown vector (x of set_prescribed_variables, s of the solvers)
    r,              \* residual vector
    K,              \* tangent matrix, K[i][j]
    xs, xe,         \* ownership range [xs, xe) of the vectors on this process
    op,             \* last lumped-model operation
    a_idx,          \* index_prescribed of the last set_prescribed_variables call
    a_val,          \* val of the last set_prescribed_variables call
    prescribed,     \* pb.prescribed_variables: variable index |-> value of its curve at t
    c_ids,          \* cardvasc0D.c_ids: rows of the 0D block coupled to the continuum
    v_ids,          \* cardvasc0D.v_ids: 0D variables acting on the continuum
    ode_pc,         \* solver_nonlinear_ode.newton: "idle", "iterating", "converged", "failed"
    ode_it,         \* its iteration index
    ode_maxiter,    \* its self.maxiter
    ode_tol,        \* its self.tolerances
    ode_norms,      \* squares of res_norm and inc_norm of its last pass
    \* ---- cycle monitor ----
    T_cycl,         \* self.T_cycl, in ticks
    t,              \* time of the last cycle_check call, in ticks
    var,            \* unknowns handed to the last cycle_check call
    varTc,          \* snapshot at the last cycle boundary
    varTc_old,      \* snapshot at the boundary before
    cycle,          \* cycle[0]
    eps_periodic,   \* periodicity tolerance
    inioutpath,     \* TRUE when an output path for initial conditions is configured
    induce_pert_after_cycl,
    is_periodic,    \* value returned by the last cycle_check call
    written,        \* <<start of cycle, end of cycle>> handed to write_initial by that call
    \* ---- disease perturbation ----
    have_induced_pert,  \* self.have_induced_pert
    params,         \* the valve resistances R_vin_l_max, R_vin_l_min, R_vout_l_max, R_vout_l_min
    tab_sym,        \* parameters the symbolic tables df_, f_, a_ were built from
    tab_K,          \* parameters the symbolic Jacobian tables Kdf_, Kf_ were derived from
    tab_fn,         \* parameters the compiled callables were lambdified from
    rebuilds,       \* number of rebuilds so far
    steps,          \* the statements the last induce_perturbation call executed, in order
    p_type, p_cycle, p_after,  \* arguments of the last induce_perturbation call
    \* ---- local (integration-point) Newton ----
    localsolve,     \* pb.localsolve
    it_local,       \* it_local of a newton_local call that raised, else 0
    \* ---- one newton call on each of several cooperating processes ----
    q_pc,           \* per process: "idle", "compute", "reduce" (inside the norm call), "converged", "failed"
    q_it,           \* per process: it
    q_ca,           \* per process: counter_adapt
    q_maxiter,      \* per process: self.maxiter
    contributed,    \* processes that have entered the norm reduction in progress
    inbox,          \* per process: queue of reduced norms delivered to it and not yet returned
    \* ---- SolidmechanicsSolver.solve_problem ----
    restart_step,   \* pb.restart_step
    numstep_stop,   \* pb.numstep_stop
    write_results_every,   \* io.write_results_every
    write_restart_every,   \* io.write_restart_every
    sp_N,           \* the time step N the main loop is at
    sp_pc,          \* "loop", "done" (loop left normally), "raised" (newton raised)
    trace,          \* what the run has done so far, in order: <<what, N>>
    \* ---- chamber interfaces and coupling state ----
    chmodels,       \* self.chmodels: chamber |-> model
    chinterf,       \* self.chinterf: chamber |-> number of 3D interfaces
    cq,             \* self.cq: coupling quantity
    c_,             \* self.c_: coupling symbols appended so far
    fnc_,           \* self.fnc_: elastance function symbols appended so far
    cs_pc,          \* "config", "ready" (set_chamber_interfaces returned), "raised"
    cs_ch,          \* chamber of the last set_coupling_state call, "none" before
    cs_out,         \* its outcome: "ok", "AttributeError", "NameError"
    \* ---- text files of the 0D model (rank 0) ----
    varmap,         \* self.varmap: sequence of <<name, index>>, names distinct
    varTc_old_sq,   \* write_initial: state at the start of the cycle
    varTc_sq,       \* write_initial: state at the end of the cycle
    f1,             \* initial_data_Tstart.txt: whether it exists, and its lines
    f2,             \* initial_data_Tend.txt: whether it exists, and its lines
    initialdata,    \* the file set_initial_from_file read last, "none" before
    pini0D,         \* the dictionary it returned
    auxmap,         \* self.auxmap: sequence of <<name, index>>, names distinct
    init,           \* self.init: no write_output call yet
    outfiles,       \* <name>.txt for the names of existing files: its lines
    calls,          \* the write_output calls so far: <<t, var, aux>>
    \* ---- a call ModuloIsRelativeZero(value, modulo, Ref) in floating point ----
    mz_value,       \* value, as a fraction [n, d]
    mz_modulo,      \* modulo
    mz_Ref,         \* Ref
    mz_result,      \* what the call returned: "True", "False", "none" before
    \* ---- PTC factor of a newton call ----
    k_PTC,          \* per process: k_PTC, a fraction [n, d]
    struct_res_u_norm_last,  \* struct_res_u_norm_last, 0 while not yet assigned
    \* ---- time step update of the lumped model ----
    cur,            \* the current vectors var, df, f, aux
    old,            \* the old vectors var_old, df_old, f_old, aux_old
    own,            \* the range vs, ve the process copies
    u_op            \* last operation on these vectors

newtonVars == <<kind, two_field, coupling, divcont, maxiter, PTC, tolerances,
                pc, it, counter_adapt, err, converged, resnorms, incnorms, upd, rst>>

lumpedVars == <<x, r, K, xs, xe, op, a_idx, a_val>>

linVars == <<prescribed, c_ids, v_ids, ode_pc, ode_it, ode_maxiter, ode_tol, ode_norms>>

cycleVars == <<T_cycl, t, var, varTc, varTc_old, cycle, eps_periodic, inioutpath,
               induce_pert_after_cycl, is_periodic, written>>

pertVars == <<have_induced_pert, params, tab_sym, tab_K, tab_fn, rebuilds, steps,
              p_type, p_cycle, p_after>>

localVars == <<localsolve, it_local>>

\* the variables of the parts of the program modelled further below
parVars == <<q_pc, q_it, q_ca, q_maxiter, contributed, inbox>>

solveVars == <<restart_step, numstep_stop, write_results_every, write_restart_every,
               sp_N, sp_pc, trace>>

cplVars == <<chmodels, chinterf, cq, c_, fnc_, cs_pc, cs_ch, cs_out>>

iniVars == <<varmap, varTc_old_sq, varTc_sq, f1, f2, initialdata, pini0D>>

outVars == <<auxmap, init, outfiles, calls>>

mzVars == <<mz_value, mz_modulo, mz_Ref, mz_result>>

ptcVars == <<k_PTC, struct_res_u_norm_last>>
updVars == <<cur, old, own, u_op>>

otherVars == <<localVars, parVars, solveVars, cplVars, iniVars, outVars, mzVars, ptcVars, updVars>>

vars == <<newtonVars, lumpedVars, linVars, cycleVars, pertVars, otherVars>>

NoDict == [k \in {} |-> 0]

dofs == 0..(numdof - 1)

ZeroVec == [i \in dofs |-> 0]
ZeroMat == [i \in dofs |-> [j \in dofs |-> 0]]

\* parameters as configured
ParamsCfg == [R_vin_l_max |-> "cfg", R_vin_l_min |-> "cfg",
              R_vout_l_max |-> "cfg", R_vout_l_min |-> "cfg"]

\* the cycle monitor while it is not used
IdleCycle ==
    /\ T_cycl = 0 /\ t = 0 /\ var = ZeroVec /\ varTc = ZeroVec /\ varTc_old = ZeroVec
    /\ cycle = 1 /\ eps_periodic = 1 /\ inioutpath = FALSE
    /\ induce_pert_after_cycl = -1 /\ is_periodic = FALSE /\ written = <<>>

\* the model as constructed: no perturbation, tables built from the configuration
IdlePert ==
    /\ have_induced_pert = FALSE
    /\ params = ParamsCfg
    /\ tab_sym = ParamsCfg /\ tab_K = ParamsCfg /\ tab_fn = ParamsCfg
    /\ rebuilds = 0 /\ steps = <<>>
    /\ p_type = "none" /\ p_cycle = 0 /\ p_after = 0

\* the lumped solver while it is not used
IdleLin ==
    /\ prescribed = NoDict /\ c_ids = {} /\ v_ids = {}
    /\ ode_pc = "idle" /\ ode_it = 0 /\ ode_maxiter = 1 /\ ode_tol = NoDict
    /\ ode_norms = NoDict

\* no local Newton
IdleLocal == localsolve = FALSE /\ it_local = 0

\* the parts modelled further below while they are not used
\* number of cooperating processes
NProcs == 2

Procs == 1..NProcs

\* the processes before they call newton
IdlePar ==
    /\ q_pc = [p \in Procs |-> "idle"]
    /\ q_it = [p \in Procs |-> 0]
    /\ q_ca = [p \in Procs |-> 0]
    /\ q_maxiter = [p \in Procs |-> 1]
    /\ contributed = {}
    /\ inbox = [p \in Procs |-> <<>>]

\* no time loop
IdleSolve ==
    /\ restart_step = 0 /\ numstep_stop = 0
    /\ write_results_every = 0 /\ write_restart_every = -1
    /\ sp_N = 1 /\ sp_pc = "done" /\ trace = <<>>

\* chambers of the model (two of lv, rv, la, ra)
Chambers == {"lv", "rv"}

\* an elastance-only heart, nothing built
IdleCoupling ==
    /\ chmodels = [ch \in Chambers |-> "0D_elast"]
    /\ chinterf = [ch \in Chambers |-> 0]
    /\ cq = "volume"
    /\ c_ = <<>> /\ fnc_ = <<>>
    /\ cs_pc = "config" /\ cs_ch = "none" /\ cs_out = "ok"

\* a file that does not exist
NoFile == [exists |-> FALSE, lines |-> <<>>]

\* no variables, nothing written
IdleIni ==
    /\ varmap = <<>>
    /\ varTc_old_sq = <<>> /\ varTc_sq = <<>>
    /\ f1 = NoFile /\ f2 = NoFile
    /\ initialdata = "none" /\ pini0D = NoDict

\* a fresh model object, no output yet
IdleOut == auxmap = <<>> /\ init = TRUE /\ outfiles = NoDict /\ calls = <<>>

\* no call made
IdleMz ==
    /\ mz_value = [n |-> 0, d |-> 1] /\ mz_modulo = [n |-> 1, d |-> 1]
    /\ mz_Ref = [n |-> 1, d |-> 1] /\ mz_result = "none"

\* k_ptc_initial: the default of solver_nonlinear.__init__
k_PTC_initial == [n |-> 1, d |-> 10]

\* the four vectors of a slot
VecNames == {"var", "df", "f", "aux"}

\* all vectors zero, nothing copied yet
IdleUpd ==
    /\ cur = [v \in VecNames |-> [i \in 0..(numdof - 1) |-> 0]]
    /\ old = [v \in VecNames |-> [i \in 0..(numdof - 1) |-> 0]]
    /\ own = [vs |-> 0, ve |-> numdof]
    /\ u_op = "none"

\* no newton call yet
IdlePTC == k_PTC = [p \in Procs |-> k_PTC_initial] /\ struct_res_u_norm_last = 0

IdleOther ==
    IdleLocal /\ IdlePar /\ IdleSolve /\ IdleCoupling /\ IdleIni /\ IdleOut /\ IdleMz /\ IdlePTC /\ IdleUpd

\* the lumped-model variables while only the Newton drivers act
IdleLumped ==
    /\ x = ZeroVec /\ r = ZeroVec /\ K = ZeroMat
    /\ xs = 0 /\ xe = numdof
    /\ op = "none" /\ a_idx = 0 /\ a_val = 0
    /\ IdleLin
    /\ IdleCycle
    /\ IdlePert
    /\ IdleOther


(***************************************************************************)
(* Tolerance dictionaries built by the constructors.                       *)
(***************************************************************************)
\* solver_nonlinear.__init__
TolerancesStd(twof, tolres, tolinc) ==
    IF twof
    THEN [k \in {"res_u", "inc_u", "res_p", "inc_p"} |->
             IF k \in {"res_u", "res_p"} THEN tolres ELSE tolinc]
    ELSE [k \in {"res_u", "inc_u"} |-> IF k = "res_u" THEN tolres ELSE tolinc]

\* variant: the monolithic solver keeps the tolerances of the structural solver
TolerancesMono_StructOnly(twof, tolres, tolinc, tolres0D, tolinc0D) ==
    IF twof
    THEN [k \in {"res_u", "inc_u", "res_p", "inc_p"} |->
             IF k \in {"res_u", "res_p"} THEN tolres ELSE tolinc]
    ELSE [k \in {"res_u", "inc_u"} |-> IF k = "res_u" THEN tolres ELSE tolinc]

\* solver_nonlinear_constraint_monolithic.__init__
TolerancesMono(twof, tolres, tolinc, tolres0D, tolinc0D) ==
    IF twof
    THEN [k \in {"res_u", "inc_u", "res_p", "inc_p", "res_0d", "inc_0d"} |->
             CASE k \in {"res_u", "res_p"} -> tolres
               [] k \in {"inc_u", "inc_p"} -> tolinc
               [] k = "res_0d" -> tolres0D
               [] OTHER -> tolinc0D]
    ELSE [k \in {"res_u", "inc_u", "res_0d", "inc_0d"} |->
             CASE k = "res_u" -> tolres
               [] k = "inc_u" -> tolinc
               [] k = "res_0d" -> tolres0D
               [] OTHER -> tolinc0D]

(***************************************************************************)
(* Keys of the norm dictionaries an iteration fills.                       *)
(***************************************************************************)
\* solver_nonlinear.newton: resnorms = {'res_u'}, plus 'res_p' when 2-field
ResKeysStd(twof) == {"res_u"} \cup (IF twof THEN {"res_p"} ELSE {})
IncKeysStd(twof) == {"inc_u"} \cup (IF twof THEN {"inc_p"} ELSE {})

\* solver_nonlinear_constraint_monolithic.newton: additionally 'res_0d'
ResKeysMono(twof) == {"res_u"} \cup (IF twof THEN {"res_p"} ELSE {}) \cup {"res_0d"}
IncKeysMono(twof) == {"inc_u"} \cup (IF twof THEN {"inc_p"} ELSE {}) \cup {"inc_0d"}

(***************************************************************************)
(* sol_utils.check_converged: all keys of the tolerance dictionary must be *)
(* satisfied by the norm of the same key.                                  *)
(***************************************************************************)
check_converged(rn, inn, tol) ==
    \A k \in DOMAIN tol :
        /\ k \in (DOMAIN rn) \cup (DOMAIN inn)
        /\ k \in DOMAIN rn => rn[k] <= tol[k]
        /\ k \in DOMAIN inn => inn[k] <= tol[k]

(***************************************************************************)
(* The loop condition of newton's while statement.                         *)
(***************************************************************************)
\* variant: the retry counter is not part of the condition
LoopCond_NoRetryBound(i, mx, ca) == i < mx

\* variant: one pass too many
LoopCond_OneMore(i, mx, ca) == i <= mx /\ ca < max_adapt

LoopCond(i, mx, ca) == i < mx /\ ca < max_adapt

(***************************************************************************)
(* Blocks updated and reset by an iteration.                               *)
(***************************************************************************)
UpdatedStd(twof) == {"u"} \cup (IF twof THEN {"p"} ELSE {})
ResetStd(twof) == {"u"} \cup (IF twof THEN {"p"} ELSE {})

UpdatedMono(twof, coup) ==
    {"u"} \cup (IF twof THEN {"p"} ELSE {})
          \cup (IF coup = "monolithic_direct" THEN {"s"} ELSE {})
          \cup (IF coup = "monolithic_lagrange" THEN {"lm"} ELSE {})
ResetMono(twof) == {"u", "s"} \cup (IF twof THEN {"p"} ELSE {})

(***************************************************************************)
(* Tail of one pass through the loop body, from "it += 1" to the           *)
(* re-evaluation of the while condition: rn, inn are the norm dictionaries *)
(* of the pass, e the value catch_solver_errors returns for it, rs the     *)
(* blocks reset_step is applied to on a restart.                           *)
(***************************************************************************)
\* variant: the reset leaves the iteration index alone
RestartIt_NoReset(i, restart) == i + 1

\* "it += 1", and "it = 0" of the reset
RestartIt(i, restart) == IF restart THEN 0 ELSE i + 1

\* variant: the reset does not count
RestartCounter_NoCount(ca, restart) == ca

\* "counter_adapt += 1" of the reset
RestartCounter(ca, restart) == IF restart THEN ca + 1 ELSE ca

\* the reset is taken only under "if self.divcont=='PTC'" and "if err"
Restart(dc, e) == dc = "PTC" /\ e

\* a variant that keeps the configured bound
AdaptMaxiter_Configured(dc, mx) == mx

\* "self.maxiter = 250" under "if self.divcont=='PTC'"
AdaptMaxiter(dc, mx) == IF dc = "PTC" THEN maxiter_PTC ELSE mx

\* a variant that leaves PTC as the pass found or made it
PTCAfterPass_KeepOn(conv, restart, dc, ptc) == IF restart THEN TRUE ELSE ptc

\* self.PTC after the pass: "if err: self.PTC = True", then
\* "if converged: if self.divcont=='PTC': self.PTC = False"
PTCAfterPass(conv, restart, dc, ptc) ==
    IF conv /\ dc = "PTC" THEN FALSE
    ELSE IF restart THEN TRUE ELSE ptc

IterTail(rn, inn, e, rs) ==
    \E restart \in {Restart(divcont, e)},
       conv \in {check_converged(rn, inn, tolerances)} :
    \E it1 \in {RestartIt(it, restart)},
       ca1 \in {RestartCounter(counter_adapt, restart)},
       mx1 \in {AdaptMaxiter(divcont, maxiter)} :
    \E again \in {LoopCond(it1, mx1, ca1)} :
        /\ err' = restart
        /\ rst' = IF restart THEN rs ELSE {}
        /\ converged' = conv
        /\ maxiter' = mx1
        /\ it' = it1
        /\ PTC' = PTCAfterPass(conv, restart, divcont, PTC)
        /\ counter_adapt' = IF conv /\ divcont = "PTC" THEN 0 ELSE ca1
        /\ pc' = IF conv THEN "converged"
                 ELSE IF again THEN "iterating" ELSE "failed"
        /\ resnorms' = IF conv \/ ~again THEN rn ELSE NoDict
        /\ incnorms' = IF conv \/ ~again THEN inn ELSE NoDict

\* values catch_solver_errors may return: it is only called with divcont = 'PTC'
ErrValues == IF divcont = "PTC" THEN BOOLEAN ELSE {FALSE}

(***************************************************************************)
(* Entry of newton: it = 0, counter_adapt = 0, then the while condition.   *)
(***************************************************************************)
NewtonCall ==
    /\ pc \in {"idle", "converged"}
    /\ it' = 0
    /\ counter_adapt' = 0
    /\ err' = FALSE
    /\ converged' = FALSE
    /\ resnorms' = NoDict
    /\ incnorms' = NoDict
    /\ upd' = {}
    /\ rst' = {}
    /\ pc' = IF LoopCond(0, maxiter, 0) THEN "iterating" ELSE "failed"
    /\ UNCHANGED <<kind, two_field, coupling, divcont, maxiter, PTC, tolerances>>
    /\ UNCHANGED <<lumpedVars, linVars, cycleVars, pertVars>>
    /\ UNCHANGED otherVars

\* one pass of the loop of solver_nonlinear.newton
NewtonStdIter ==
    /\ pc = "iterating"
    /\ kind = "std"
    /\ \E rn \in [ResKeysStd(two_field) -> Norms],
          inn \in [IncKeysStd(two_field) -> Norms],
          e \in ErrValues :
            /\ upd' = UpdatedStd(two_field)
            /\ IterTail(rn, inn, e, ResetStd(two_field))
    /\ UNCHANGED <<kind, two_field, coupling, divcont, tolerances>>
    /\ UNCHANGED <<lumpedVars, linVars, cycleVars, pertVars>>
    /\ UNCHANGED otherVars

\* one pass of the loop of solver_nonlinear_constraint_monolithic.newton
NewtonMonoIter ==
    /\ pc = "iterating"
    /\ kind = "mono"
    /\ \E rn \in [ResKeysMono(two_field) -> Norms],
          inn \in [IncKeysMono(two_field) -> Norms],
          e \in ErrValues :
            /\ upd' = UpdatedMono(two_field, coupling)
            /\ IterTail(rn, inn, e, ResetMono(two_field))
    /\ UNCHANGED <<kind, two_field, coupling, divcont, tolerances>>
    /\ UNCHANGED <<lumpedVars, linVars, cycleVars, pertVars>>
    /\ UNCHANGED otherVars

InitNewton ==
    /\ kind \in {"std", "mono"}
    /\ two_field \in BOOLEAN
    /\ coupling \in (IF kind = "std" THEN {"none"}
                     ELSE {"monolithic_direct", "monolithic_lagrange"})
    /\ divcont \in {"PTC", "None"}
    /\ maxiter \in 1..MaxIterCfg
    /\ PTC \in BOOLEAN
    /\ \E tolres \in TolValues, tolinc \in TolValues,
          tolres0D \in TolValues, tolinc0D \in TolValues :
          tolerances = IF kind = "std"
                       THEN TolerancesStd(two_field, tolres, tolinc)
                       ELSE TolerancesMono(two_field, tolres, tolinc, tolres0D, tolinc0D)
    /\ pc = "idle"
    /\ it = 0
    /\ counter_adapt = 0
    /\ err = FALSE
    /\ converged = FALSE
    /\ resnorms = NoDict
    /\ incnorms = NoDict
    /\ upd = {}
    /\ rst = {}
    /\ IdleLumped

NextNewton == NewtonCall \/ NewtonStdIter \/ NewtonMonoIter

SpecNewton == InitNewton /\ [][NextNewton]_vars

(***************************************************************************)
(* cardiovascular0Dbase.set_prescribed_variables                           *)
(***************************************************************************)
\* "modification of rhs entry": only when index_prescribed is in range(xs, xe)
PrescribedR(x_, r_, val, idx, s_, e_) ==
    IF idx >= s_ /\ idx < e_
    THEN [r_ EXCEPT ![idx] = x_[idx] - val]
    ELSE r_

\* a variant that clears the column of idx instead of its row
PrescribedK_Column(K_, idx) ==
    [i \in dofs |->
        [j \in dofs |-> IF j = idx THEN (IF i = idx THEN 1 ELSE 0) ELSE K_[i][j]]]

\* "modification of stiffness matrix": the loops over i and j
PrescribedK(K_, idx) ==
    [i \in dofs |->
        IF i = idx
        THEN [j \in dofs |-> IF j # idx THEN 0 ELSE 1]
        ELSE K_[i]]

\* the solver objects while only the lumped model acts
IdleNewton ==
    /\ kind = "std" /\ two_field = FALSE /\ coupling = "none"
    /\ divcont = "None" /\ maxiter = 1 /\ PTC = FALSE
    /\ tolerances = NoDict
    /\ pc = "idle" /\ it = 0 /\ counter_adapt = 0
    /\ err = FALSE /\ converged = FALSE
    /\ resnorms = NoDict /\ incnorms = NoDict
    /\ upd = {} /\ rst = {}

\* a call set_prescribed_variables(x, r, K, val, index_prescribed)
SetPrescribed ==
    \E val \in PVals, idx \in 0..numdof :
        /\ r' = PrescribedR(x, r, val, idx, xs, xe)
        /\ K' = PrescribedK(K, idx)
        /\ a_idx' = idx
        /\ a_val' = val
        /\ op' = "set_prescribed_variables"
        /\ UNCHANGED <<x, xs, xe>>
        /\ UNCHANGED <<newtonVars, linVars, cycleVars, pertVars>>
        /\ UNCHANGED otherVars

\* any assembled residual and tangent, any unknowns, any ownership range
InitPresc ==
    /\ IdleNewton
    /\ x \in [dofs -> Entries]
    /\ r \in [dofs -> Entries]
    /\ K \in [dofs -> [dofs -> Entries]]
    /\ xs \in 0..numdof
    /\ xe \in xs..numdof
    /\ op = "none" /\ a_idx = 0 /\ a_val = 0
    /\ IdleLin
    /\ IdleCycle
    /\ IdlePert
    /\ IdleOther

NextPresc == SetPrescribed

SpecPresc == InitPresc /\ [][NextPresc]_vars

(***************************************************************************)
(* Linear algebra of one Newton pass on the lumped block.                  *)
(***************************************************************************)
RECURSIVE Sum(_, _)
Sum(f, S) == IF S = {} THEN 0
             ELSE LET i == CHOOSE j \in S : \A k \in S : j <= k
                  IN  f[i] + Sum(f, S \ {i})

\* sum over j = 0..n of A[i][j] * v[j]
RECURSIVE RowDot(_, _, _, _)
RowDot(A, v, i, n) == IF n < 0 THEN 0 ELSE A[i][n] * v[n] + RowDot(A, v, i, n - 1)

\* (A v)[i] for a matrix A[i][j] and a vector v
MatVec(A, v) == [i \in dofs |-> RowDot(A, v, i, numdof - 1)]

\* square of the 2-norm of a vector (Vec.norm())
NormSq(v) == Sum([i \in dofs |-> v[i] * v[i]], dofs)

\* "for a in prescribed_variables: set_prescribed_variables(s, r, K, val, varindex)"
RECURSIVE ApplyPrescribed(_, _, _, _)
ApplyPrescribed(todo, x_, r_, K_) ==
    IF todo = {} THEN <<r_, K_>>
    ELSE LET a == CHOOSE i \in todo : \A k \in todo : i <= k
         IN  ApplyPrescribed(todo \ {a}, x_,
                             PrescribedR(x_, r_, prescribed[a], a, 0, numdof),
                             PrescribedK(K_, a))

\* ksp.solve(-r, ds) with the operator K: the increments ds with K ds = -r
Solve(K_, r_) ==
    {ds \in [dofs -> DVals] : \A i \in dofs : RowDot(K_, ds, i, numdof - 1) = 0 - r_[i]}

\* a variant that looks at the residual norm only
OdeConverged_ResOnly(r_, ds) ==
    NormSq(r_) <= ode_tol["res_0d"] * ode_tol["res_0d"]

\* check_converged for the dictionaries {'res_0d'}, {'inc_0d'} of the ODE solver
OdeConverged(r_, ds) ==
    /\ NormSq(r_) <= ode_tol["res_0d"] * ode_tol["res_0d"]
    /\ NormSq(ds) <= ode_tol["inc_0d"] * ode_tol["inc_0d"]

\* entry of solver_nonlinear_ode.newton
OdeNewtonCall ==
    /\ c_ids = {}
    /\ ode_pc \in {"idle", "converged"}
    /\ ode_it' = 0
    /\ ode_pc' = IF 0 < ode_maxiter THEN "iterating" ELSE "failed"
    /\ op' = "ode_call"
    /\ UNCHANGED <<x, r, K, xs, xe, a_idx, a_val>>
    /\ UNCHANGED <<prescribed, c_ids, v_ids, ode_maxiter, ode_tol, ode_norms>>
    /\ UNCHANGED <<newtonVars, cycleVars, pertVars>>
    /\ UNCHANGED otherVars

\* a variant that checks convergence first and leaves a converged state alone
PassUpdate_CheckFirst(x_, ds, conv) ==
    IF conv THEN x_ ELSE [i \in dofs |-> x_[i] + ds[i]]

\* "s.axpy(1.0, ds)": done in every pass, before check_converged
PassUpdate(x_, ds, conv) == [i \in dofs |-> x_[i] + ds[i]]

\* one pass of the loop of solver_nonlinear_ode.newton: evaluate and assemble
\* (any r0, K0), prescribed variables, linear solve, update, convergence check
OdeNewtonIter ==
    /\ ode_pc = "iterating"
    /\ \E r0 \in [dofs -> Entries], K0 \in [dofs -> [dofs -> Entries]] :
       \E rK \in {ApplyPrescribed(DOMAIN prescribed, x, r0, K0)} :
       \E ds \in Solve(rK[2], rK[1]) :
       \E conv \in {OdeConverged(rK[1], ds)} :
          /\ x' = PassUpdate(x, ds, conv)
          /\ x' \in [dofs -> XVals]
          /\ ode_it' = ode_it + 1
          /\ ode_norms' = [k \in {"res_0d", "inc_0d"} |->
                              IF k = "res_0d" THEN NormSq(rK[1]) ELSE NormSq(ds)]
          /\ ode_pc' = IF conv THEN "converged"
                       ELSE IF ode_it + 1 < ode_maxiter THEN "iterating" ELSE "failed"
    /\ op' = "ode_newton"
    /\ UNCHANGED <<r, K, xs, xe, a_idx, a_val>>
    /\ UNCHANGED <<prescribed, c_ids, v_ids, ode_maxiter, ode_tol>>
    /\ UNCHANGED <<newtonVars, cycleVars, pertVars>>
    /\ UNCHANGED otherVars

\* the assemble-solve-update part of one pass of the loop of
\* solver_nonlinear_constraint_monolithic.newton with monolithic_direct
\* coupling and a one-dof continuum block: rows c_ids of K_su and columns
\* v_ids of K_us are filled, the nested system [[K_uu, K_us], [K_su, K_ss]]
\* is solved for (del_u, del_s), and s is updated
MonoDirectStep ==
    /\ c_ids # {}
    /\ \E r_u \in Entries, K_uu \in {1},
          K_us \in [v_ids -> Entries], K_su \in [c_ids -> Entries],
          r0 \in [dofs -> Entries], K0 \in [dofs -> [dofs -> Entries]] :
       \E rK \in {ApplyPrescribed(DOMAIN prescribed, x, r0, K0)} :
       \E del_u \in DVals, del_s \in [dofs -> DVals] :
          /\ K_uu * del_u + Sum([j \in v_ids |-> K_us[j] * del_s[j]], v_ids) = 0 - r_u
          /\ \A i \in dofs :
                (IF i \in c_ids THEN K_su[i] * del_u ELSE 0)
                   + RowDot(rK[2], del_s, i, numdof - 1) = 0 - rK[1][i]
          /\ x' = [i \in dofs |-> x[i] + del_s[i]]
          /\ x' \in [dofs -> XVals]
    /\ op' = "mono_newton"
    /\ UNCHANGED <<r, K, xs, xe, a_idx, a_val>>
    /\ UNCHANGED linVars
    /\ UNCHANGED <<newtonVars, cycleVars, pertVars>>
    /\ UNCHANGED otherVars

InitLin ==
    /\ IdleNewton
    /\ x \in [dofs -> Entries]
    /\ r = ZeroVec /\ K = ZeroMat
    /\ xs = 0 /\ xe = numdof
    /\ op = "none" /\ a_idx = 0 /\ a_val = 0
    /\ \E P \in SUBSET dofs : prescribed \in [P -> PVals]
    /\ \/ /\ c_ids = {} /\ v_ids = {}            \* pure 0D problem
          /\ ode_maxiter \in 1..MaxIterCfg
       \/ /\ \E c \in dofs, v \in dofs : c_ids = {c} /\ v_ids = {v}
          /\ ode_maxiter = 1                      \* monolithic_direct coupling
    /\ ode_pc = "idle" /\ ode_it = 0 /\ ode_norms = NoDict
    /\ \E tr \in TolValues, ti \in TolValues :
          ode_tol = [k \in {"res_0d", "inc_0d"} |-> IF k = "res_0d" THEN tr ELSE ti]
    /\ IdleCycle
    /\ IdlePert
    /\ IdleOther

NextLin == OdeNewtonCall \/ OdeNewtonIter \/ MonoDirectStep

SpecLin == InitLin /\ [][NextLin]_vars

(***************************************************************************)
(* Cycle monitor.  Times are whole numbers of ticks; value + modulo/2 is   *)
(* kept exact by working with twice the quantities.                        *)
(***************************************************************************)
Abs(a) == IF a < 0 THEN 0 - a ELSE a

\* math.fmod for a non-negative dividend
Fmod(a, m) == a % m

\* IsRelativeEqualTo(A, B, Ref): fabs(A-B)/Ref < 1.0e-12.  A, B and Ref are
\* whole numbers of (half) ticks with 0 < Ref < 10^12, so the quotient is
\* below 1.0e-12 exactly when A = B.
IsRelativeEqualTo(A, B, Ref) == Abs(A - B) = 0

\* ModuloIsRelativeZero(value, modulo, Ref), on doubled quantities
ModuloIsRelativeZero(value, modulo, Ref) ==
    IsRelativeEqualTo(Fmod(2 * value + modulo, 2 * modulo) - modulo, 0, 2 * Ref)

\* check_periodic: every variable differs from the previous snapshot by at
\* most eps, relative to a reference of 1
check_periodic(vTc, vTc_old, eps) ==
    \A i \in dofs : Abs(vTc[i] - vTc_old[i]) <= eps

\* a variant that leaves the destination as it is
CopyOwned_Skip(dst, src, vs, ve) == dst

\* the snapshot loops "for i in range(vs,ve): dst[i] = src[i]"
CopyOwned(dst, src, vs, ve) ==
    [i \in dofs |-> IF i >= vs /\ i < ve THEN src[i] ELSE dst[i]]

\* a variant that gates only the cycles strictly before the configured one
Gated_Strict(cyc, after) == cyc < after

\* a variant that persists after the roll of varTc_old
WriteInitialArgs_AfterRoll(per, path, vold, vnew) ==
    IF per /\ path THEN <<vnew, vnew>> ELSE <<>>

\* "if is_periodic and inioutpath is not None: self.write_initial(inioutpath,
\* varTc_old, varTc)": the vectors the call hands over, <<>> without a call
WriteInitialArgs(per, path, vold, vnew) ==
    IF per /\ path THEN <<vold, vnew>> ELSE <<>>

\* the cycle index below or at which periodicity is never reported
Gated(cyc, after) == cyc <= after

\* a call cycle_check(var, varTc, varTc_old, t, cycle, ...) after one more time step
CycleCheck ==
    /\ t < MaxT
    /\ \E v \in [dofs -> CVals] :
       \E tt \in {t + 1} :
       \E boundary \in {T_cycl > 0 /\ ModuloIsRelativeZero(tt, T_cycl, tt)} :
       \E snap \in {CopyOwned(varTc, v, xs, xe)} :
       \E per \in {IF Gated(cycle, induce_pert_after_cycl) THEN FALSE
                   ELSE check_periodic(snap, varTc_old, eps_periodic)} :
          /\ t' = tt
          /\ var' = v
          /\ IF boundary
             THEN /\ varTc' = snap
                  /\ is_periodic' = per
                  /\ written' = WriteInitialArgs(per, inioutpath, varTc_old, snap)
                  /\ varTc_old' = CopyOwned(varTc_old, snap, xs, xe)
                  /\ cycle' = cycle + 1
             ELSE /\ is_periodic' = FALSE
                  /\ written' = <<>>
                  /\ UNCHANGED <<varTc, varTc_old, cycle>>
    /\ op' = "cycle_check"
    /\ UNCHANGED <<T_cycl, eps_periodic, inioutpath, induce_pert_after_cycl>>
    /\ UNCHANGED <<x, r, K, xs, xe, a_idx, a_val>>
    /\ UNCHANGED <<newtonVars, linVars, pertVars>>
    /\ UNCHANGED otherVars

InitCycle ==
    /\ IdleNewton
    /\ x = ZeroVec /\ r = ZeroVec /\ K = ZeroMat
    /\ xs \in 0..numdof
    /\ xe \in xs..numdof
    /\ op = "none" /\ a_idx = 0 /\ a_val = 0
    /\ IdleLin
    /\ IdlePert
    /\ IdleOther
    /\ T_cycl \in {0, 2, 3}
    /\ t = 0
    /\ var = ZeroVec /\ varTc = ZeroVec /\ varTc_old = ZeroVec
    /\ cycle = 1
    /\ eps_periodic \in {1, 2}
    /\ inioutpath \in BOOLEAN
    /\ induce_pert_after_cycl \in {-1, 1, 2}
    /\ is_periodic = FALSE
    /\ written = <<>>

NextCycle == CycleCheck

SpecCycle == InitCycle /\ [][NextCycle]_vars

(***************************************************************************)
(* Disease perturbation.                                                   *)
(***************************************************************************)
PerturbTypes == {"mr", "ms", "ar", "as", "other"}

\* a variant that takes aortic stenosis for aortic regurgitation
Perturbed_Swapped(ps, ptype) ==
    LET p1 == IF ptype = "mr" THEN [ps EXCEPT !.R_vin_l_max = "1.0e-5"] ELSE ps
        p2 == IF ptype = "ms" THEN [p1 EXCEPT !.R_vin_l_min = "2.5e-5"] ELSE p1
        p3 == IF ptype = "as" THEN [p2 EXCEPT !.R_vout_l_max = "5.0e-5"] ELSE p2
        p4 == IF ptype = "ar" THEN [p3 EXCEPT !.R_vout_l_min = "5.0e-5"] ELSE p3
    IN  p4

\* the four "if perturb_type==..." assignments
Perturbed(ps, ptype) ==
    LET p1 == IF ptype = "mr" THEN [ps EXCEPT !.R_vin_l_max = "1.0e-5"] ELSE ps
        p2 == IF ptype = "ms" THEN [p1 EXCEPT !.R_vin_l_min = "2.5e-5"] ELSE p1
        p3 == IF ptype = "ar" THEN [p2 EXCEPT !.R_vout_l_max = "5.0e-5"] ELSE p2
        p4 == IF ptype = "as" THEN [p3 EXCEPT !.R_vout_l_min = "5.0e-5"] ELSE p3
    IN  p4

\* tables right after setup_arrays: re-initialized, no expression yet
Blank == [k \in DOMAIN ParamsCfg |-> "blank"]

\* one statement of the fired branch of induce_perturbation, on the record of
\* the parameters, the symbolic tables (sym), the symbolic Jacobian tables
\* (K), the compiled callables (fn) and the flag
RebuildStep(st, step, ptype) ==
    CASE step = "mutate" -> [st EXCEPT !.params = Perturbed(st.params, ptype)]
      [] step = "setup_arrays" -> [st EXCEPT !.sym = Blank, !.K = Blank]
      [] step = "set_chamber_interfaces" -> st
      [] step = "equation_map" -> [st EXCEPT !.sym = st.params]
      [] step = "set_stiffness" -> [st EXCEPT !.K = st.sym]
      [] step = "lambdify_expressions" ->
            [st EXCEPT !.fn = [k \in DOMAIN ParamsCfg |->
                                 IF st.sym[k] = st.K[k] THEN st.sym[k] ELSE "stale"]]
      [] step = "set_flag" -> [st EXCEPT !.flag = TRUE]

RECURSIVE RunSteps(_, _, _)
RunSteps(seq, st, ptype) ==
    IF seq = <<>> THEN st
    ELSE RunSteps(Tail(seq), RebuildStep(st, Head(seq), ptype), ptype)

\* a variant that raises the flag before the rebuild
RebuildOrder_FlagFirst ==
    <<"mutate", "set_flag", "setup_arrays", "set_chamber_interfaces",
      "equation_map", "set_stiffness", "lambdify_expressions">>

\* a variant that compiles before it differentiates
RebuildOrder_CompileFirst ==
    <<"mutate", "setup_arrays", "set_chamber_interfaces",
      "equation_map", "lambdify_expressions", "set_stiffness", "set_flag">>

\* the statements of the fired branch of induce_perturbation, in order
RebuildOrder ==
    <<"mutate", "setup_arrays", "set_chamber_interfaces",
      "equation_map", "set_stiffness", "lambdify_expressions", "set_flag">>

\* a variant of the guard that ignores the flag
Fires_NoFlag(after, done, cyc) == after > 0 /\ cyc > after

\* the guard of induce_perturbation
Fires(after, done, cyc) == after > 0 /\ ~done /\ cyc > after

\* a call induce_perturbation(perturb_type, cycle, induce_pert_after_cycl)
InducePerturbation ==
    \E ptype \in PerturbTypes, cyc \in 0..MaxCycle, after \in -1..MaxCycle :
        /\ p_type' = ptype /\ p_cycle' = cyc /\ p_after' = after
        /\ IF Fires(after, have_induced_pert, cyc)
           THEN \E st \in {RunSteps(RebuildOrder,
                                    [params |-> params, sym |-> tab_sym, K |-> tab_K,
                                     fn |-> tab_fn, flag |-> have_induced_pert], ptype)} :
                  /\ params' = st.params
                  /\ tab_sym' = st.sym
                  /\ tab_K' = st.K
                  /\ tab_fn' = st.fn
                  /\ rebuilds' = rebuilds + 1
                  /\ steps' = RebuildOrder
                  /\ have_induced_pert' = st.flag
           ELSE /\ steps' = <<>>
                /\ UNCHANGED <<have_induced_pert, params, tab_sym, tab_K, tab_fn, rebuilds>>
        /\ op' = "induce_perturbation"
        /\ UNCHANGED <<x, r, K, xs, xe, a_idx, a_val>>
        /\ UNCHANGED <<newtonVars, linVars, cycleVars>>
        /\ UNCHANGED otherVars

InitPert ==
    /\ IdleNewton
    /\ x = ZeroVec /\ r = ZeroVec /\ K = ZeroMat
    /\ xs = 0 /\ xe = numdof
    /\ op = "none" /\ a_idx = 0 /\ a_val = 0
    /\ IdleLin
    /\ IdleCycle
    /\ IdlePert
    /\ IdleOther

NextPert == InducePerturbation

SpecPert == InitPert /\ [][NextPert]_vars

(***************************************************************************)
(* Properties of the Newton drivers.                                       *)
(***************************************************************************)
\* The Newton loops run whenever a pass is possible.
SpecNewtonFair ==
    InitNewton /\ [][NextNewton]_vars
        /\ WF_vars(NewtonStdIter) /\ WF_vars(NewtonMonoIter)

\* C1: without continuation (divergence_continue is not 'PTC') every pass
\* advances the iteration index by one and never resets it, the index never
\* passes maxiter, a call returns normally only from a pass declared
\* converged, and a pass that is not converged ends the call with the
\* RuntimeError exactly when it was pass number maxiter.
C1_NoContinuationFailsAtMaxiter ==
    [][ (divcont # "PTC" /\ pc = "iterating") =>
          /\ it' = it + 1
          /\ it' <= maxiter'
          /\ maxiter' = maxiter
          /\ counter_adapt' = counter_adapt
          /\ rst' = {}
          /\ ~err'
          /\ (pc' = "converged") = converged'
          /\ ~converged' => ((pc' = "failed") = (it' = maxiter))
          /\ ~converged' => pc' \in {"iterating", "failed"} ]_vars

\* a call without continuation that failed in pass maxiter, after more than one pass
C1_Witness ==
    /\ divcont # "PTC" /\ pc = "failed"
    /\ it = maxiter /\ it > 1 /\ ~converged

\* C2 as claimed: with continuation a call fails only once the retry bound is
\* reached (running out of iterations is recovered by a restart).
C2_FailsOnlyAtRetryBound ==
    (divcont = "PTC" /\ pc = "failed") => counter_adapt >= max_adapt

\* C2 amended: with continuation, a pass that catch_solver_errors flags and
\* that is not declared converged resets u (and p when active), switches PTC
\* on, sets the iteration index to 0, adds one to the retry counter, and the
\* call fails exactly when that counter has reached max_adapt; a pass that is
\* neither flagged nor converged just advances the index, and the call fails
\* exactly when the index has reached the iteration bound 250.
C2_RestartOnSolverError ==
    [][ (divcont = "PTC" /\ pc = "iterating" /\ ~converged') =>
          /\ maxiter' = maxiter_PTC
          /\ err' =>
                /\ it' = 0
                /\ counter_adapt' = counter_adapt + 1
                /\ PTC'
                /\ "u" \in rst'
                /\ two_field => "p" \in rst'
                /\ (pc' = "failed") = (counter_adapt' >= max_adapt)
          /\ ~err' =>
                /\ it' = it + 1
                /\ counter_adapt' = counter_adapt
                /\ rst' = {}
                /\ (pc' = "failed") = (it' >= maxiter_PTC) ]_vars

\* a call with continuation that restarted and later ran out of iterations
C2_Witness ==
    /\ divcont = "PTC" /\ pc = "failed"
    /\ counter_adapt > 0 /\ counter_adapt < max_adapt
    /\ it = maxiter_PTC

\* C3: the retry counter never exceeds max_adapt, and a call whose counter has
\* reached max_adapt has ended with the RuntimeError (no further pass starts).
C3_RetryBound ==
    /\ counter_adapt <= max_adapt
    /\ counter_adapt >= max_adapt => pc = "failed"

\* a call that failed with the retry counter at max_adapt
C3_Witness == pc = "failed" /\ counter_adapt = max_adapt /\ err

\* the blocks of the active problem: u; p when 2-field; 0d for the monolithic solver
ActiveBlocks ==
    {"u"} \cup (IF two_field THEN {"p"} ELSE {}) \cup (IF kind = "mono" THEN {"0d"} ELSE {})

ResKeyOf(b) == CASE b = "u" -> "res_u" [] b = "p" -> "res_p" [] OTHER -> "res_0d"
IncKeyOf(b) == CASE b = "u" -> "inc_u" [] b = "p" -> "inc_p" [] OTHER -> "inc_0d"

\* C4: after a normal return, the norm dictionaries and the tolerance
\* dictionary of the last pass hold an entry for every active block, and every
\* active block has its residual norm and its increment norm within tolerance.
C4_AllBlocksConverged ==
    pc = "converged" =>
        \A b \in ActiveBlocks :
            /\ ResKeyOf(b) \in DOMAIN resnorms
            /\ IncKeyOf(b) \in DOMAIN incnorms
            /\ ResKeyOf(b) \in DOMAIN tolerances
            /\ IncKeyOf(b) \in DOMAIN tolerances
            /\ resnorms[ResKeyOf(b)] <= tolerances[ResKeyOf(b)]
            /\ incnorms[IncKeyOf(b)] <= tolerances[IncKeyOf(b)]

\* a normal return of the monolithic 2-field solver (three blocks) after several passes
C4_Witness ==
    /\ pc = "converged" /\ kind = "mono" /\ two_field
    /\ it > 1

\* C5: every newton call ends, converged or failed.
C5_Terminates == (pc = "iterating") ~> (pc \in {"converged", "failed"})

\* a call of the monolithic solver that restarted, went on and ended
C5_Witness ==
    /\ kind = "mono" /\ divcont = "PTC"
    /\ pc = "failed" /\ counter_adapt > 1 /\ it > MaxIterCfg /\ ~err

(***************************************************************************)
(* Properties of the lumped model.                                         *)
(***************************************************************************)
\* C6: a call set_prescribed_variables(x, r, K, val, idx) with idx a valid
\* index owned by the caller leaves row idx of K the identity row and
\* r[idx] = x[idx] - val, and changes no other row of K, no other entry of r
\* and nothing of x.
C6_PrescribedRow ==
    [][ (op' = "set_prescribed_variables" /\ a_idx' \in dofs
            /\ a_idx' >= xs /\ a_idx' < xe) =>
          /\ \A j \in dofs : K'[a_idx'][j] = IF j = a_idx' THEN 1 ELSE 0
          /\ r'[a_idx'] = x[a_idx'] - a_val'
          /\ \A i \in dofs \ {a_idx'} : K'[i] = K[i] /\ r'[i] = r[i]
          /\ x' = x ]_vars

\* a call for an owned index with a nonzero value, whose row is the identity
\* row while another row still couples to the prescribed unknown
C6_Witness ==
    /\ op = "set_prescribed_variables"
    /\ a_idx \in dofs /\ a_idx >= xs /\ a_idx < xe
    /\ a_val # 0
    /\ r[a_idx] = x[a_idx] - a_val
    /\ K[a_idx][a_idx] = 1
    /\ \E i \in dofs \ {a_idx} : K[i][a_idx] # 0 /\ K[a_idx][i] = 0

\* C7: after a Newton pass of the ODE solver or of the monolithic solver with
\* direct coupling, every prescribed unknown equals its prescribed value.
C7_PrescribedReproduced ==
    op \in {"ode_newton", "mono_newton"} =>
        \A i \in DOMAIN prescribed : x[i] = prescribed[i]

\* C8: a cycle_check call that detects a cycle boundary (T_cycl > 0)
\* increments the cycle counter by exactly 1 and ends with varTc_old equal to
\* varTc equal to the current unknowns on the entries the caller owns (all
\* entries for a serial vector), whatever it returns; any other call returns
\* False and leaves the counter and both snapshots unchanged.
C8_RollAndIncrement ==
    [][ op' = "cycle_check" =>
          IF T_cycl > 0 /\ ModuloIsRelativeZero(t', T_cycl, t')
          THEN /\ cycle' = cycle + 1
               /\ \A i \in dofs : (i >= xs /\ i < xe) =>
                      varTc'[i] = var'[i] /\ varTc_old'[i] = var'[i]
               /\ (xs = 0 /\ xe = numdof) =>
                      varTc' = var' /\ varTc_old' = var'
          ELSE /\ ~is_periodic'
               /\ UNCHANGED <<cycle, varTc, varTc_old>> ]_vars

\* a boundary call on a serial vector that did not declare periodicity, with
\* the eligibility gate open, and still rolled the snapshots and counted
C8_Witness ==
    /\ op = "cycle_check" /\ xs = 0 /\ xe = numdof
    /\ T_cycl > 0 /\ t = 2 * T_cycl /\ cycle = 3
    /\ induce_pert_after_cycl < 1
    /\ ~is_periodic
    /\ var # ZeroVec /\ varTc = var /\ varTc_old = var

\* C9: a cycle_check call entered with the cycle index at or below
\* induce_pert_after_cycl returns False, whatever the snapshots and
\* eps_periodic are; it returns True only with the index above it.
C9_NotPeriodicBeforePerturbation ==
    [][ op' = "cycle_check" =>
          /\ cycle <= induce_pert_after_cycl => ~is_periodic'
          /\ is_periodic' => cycle > induce_pert_after_cycl ]_vars

\* a boundary call entered with the cycle index equal to the configured cycle
\* and a snapshot identical to the previous one, which returned False
C9_Witness ==
    /\ op = "cycle_check" /\ xs = 0 /\ xe = numdof
    /\ T_cycl > 0 /\ t = T_cycl /\ cycle = 2
    /\ induce_pert_after_cycl = 1
    /\ varTc = ZeroVec /\ varTc_old = ZeroVec
    /\ ~is_periodic

\* C10: an induce_perturbation call changes the parameters, the tables and
\* the flag only if induce_pert_after_cycl > 0, the perturbation has not fired
\* and cycle > induce_pert_after_cycl; every other call changes none of them;
\* the flag never returns to False, and the mutation and the rebuild happen at
\* most once over any sequence of calls.
C10_OneShot ==
    [][ op' = "induce_perturbation" =>
          /\ (p_after' > 0 /\ ~have_induced_pert /\ p_cycle' > p_after')
                => (have_induced_pert' /\ rebuilds' = rebuilds + 1)
          /\ ~(p_after' > 0 /\ ~have_induced_pert /\ p_cycle' > p_after')
                => UNCHANGED <<params, tab_sym, tab_K, tab_fn, rebuilds,
                               have_induced_pert>>
          /\ have_induced_pert => have_induced_pert'
          /\ rebuilds' <= 1 ]_vars

\* the perturbation has fired, and a later call past the threshold did nothing
C10_Witness ==
    /\ op = "induce_perturbation"
    /\ have_induced_pert /\ rebuilds = 1 /\ steps = <<>>
    /\ params # ParamsCfg
    /\ p_after > 0 /\ p_cycle > p_after

\* C11: a cycle_check call hands initial conditions to write_initial exactly
\* when it is at a cycle boundary, returns True (periodicity after the
\* gating) and an output path is configured; the start-of-cycle values it
\* hands over are varTc_old as it was before the call (the snapshot rolled at
\* the previous boundary), the end-of-cycle values are the snapshot varTc of
\* this boundary.
C11_PersistBeforeRoll ==
    [][ op' = "cycle_check" =>
          /\ (written' # <<>>) =
                (/\ T_cycl > 0 /\ ModuloIsRelativeZero(t', T_cycl, t')
                 /\ is_periodic' /\ inioutpath)
          /\ written' # <<>> => written' = <<varTc_old, varTc'>> ]_vars

\* a periodic boundary call with a path that persisted a start-of-cycle
\* snapshot different from the end-of-cycle one and then rolled
C11_Witness ==
    /\ op = "cycle_check" /\ xs = 0 /\ xe = numdof
    /\ is_periodic /\ inioutpath
    /\ written # <<>>
    /\ written[1] # written[2]
    /\ written[2] = varTc /\ varTc_old = varTc

(***************************************************************************)
(* One newton call of solver_nonlinear on each of NProcs cooperating       *)
(* processes.  r_u.norm() and del_u.norm() are collective: a process       *)
(* enters the reduction, the reduced norms exist once every process has    *)
(* entered, and each process returns from the call on its own.             *)
(***************************************************************************)
\* entry of newton on process p
ParEnter(p) ==
    /\ q_pc[p] = "idle"
    /\ q_it' = [q_it EXCEPT ![p] = 0]
    /\ q_ca' = [q_ca EXCEPT ![p] = 0]
    /\ q_pc' = [q_pc EXCEPT ![p] =
                   IF LoopCond(0, q_maxiter[p], 0) THEN "compute" ELSE "failed"]
    /\ UNCHANGED <<q_maxiter, contributed, inbox>>
    /\ UNCHANGED <<newtonVars, lumpedVars, linVars, cycleVars, pertVars, localVars>>
    /\ UNCHANGED <<solveVars, cplVars, iniVars, outVars, mzVars, ptcVars, updVars>>

\* process p assembles, solves and enters the norm reduction of its pass; the
\* last process to enter completes the reduction: the same norms, and the
\* same verdict of catch_solver_errors on them, for every process
ParContribute(p) ==
    /\ q_pc[p] = "compute"
    /\ q_pc' = [q_pc EXCEPT ![p] = "reduce"]
    /\ IF contributed \cup {p} = Procs
       THEN \E rn \in Norms, inn \in Norms, e \in ErrValues :
               /\ inbox' = [q \in Procs |-> Append(inbox[q], <<rn, inn, e>>)]
               /\ contributed' = {}
       ELSE /\ contributed' = contributed \cup {p}
            /\ UNCHANGED inbox
    /\ UNCHANGED <<q_it, q_ca, q_maxiter>>
    /\ UNCHANGED <<newtonVars, lumpedVars, linVars, cycleVars, pertVars, localVars>>
    /\ UNCHANGED <<solveVars, cplVars, iniVars, outVars, mzVars, ptcVars, updVars>>

\* a variant in which a process sees the residual norm of its own part
NormsOn_Local(p, red) == <<IF p = 1 THEN red[1] ELSE 2, red[2], red[3]>>

\* what r_u.norm(), del_u.norm() and catch_solver_errors on them give on
\* process p: the reduced values, the same on every process
NormsOn(p, red) == red

\* process p returns from the norm call and runs the rest of its pass: update,
\* it += 1, adaptive block, convergence check, loop condition
ParReturn(p) ==
    /\ q_pc[p] = "reduce"
    /\ inbox[p] # <<>>
    /\ \E red \in {NormsOn(p, Head(inbox[p]))} :
       \E restart \in {Restart(divcont, red[3])},
          conv \in {check_converged([k \in {"res_u"} |-> red[1]],
                                    [k \in {"inc_u"} |-> red[2]], tolerances)} :
       \E it1 \in {RestartIt(q_it[p], restart)},
          ca1 \in {RestartCounter(q_ca[p], restart)},
          mx1 \in {AdaptMaxiter(divcont, q_maxiter[p])} :
          /\ q_it' = [q_it EXCEPT ![p] = it1]
          /\ q_ca' = [q_ca EXCEPT ![p] = IF conv /\ divcont = "PTC" THEN 0 ELSE ca1]
          /\ q_maxiter' = [q_maxiter EXCEPT ![p] = mx1]
          /\ q_pc' = [q_pc EXCEPT ![p] =
                         IF conv THEN "converged"
                         ELSE IF LoopCond(it1, mx1, ca1) THEN "compute" ELSE "failed"]
    /\ inbox' = [inbox EXCEPT ![p] = Tail(inbox[p])]
    /\ UNCHANGED contributed
    /\ UNCHANGED <<newtonVars, lumpedVars, linVars, cycleVars, pertVars, localVars>>
    /\ UNCHANGED <<solveVars, cplVars, iniVars, outVars, mzVars, ptcVars, updVars>>

\* the same solver object on every process
InitPar ==
    /\ kind = "std" /\ two_field = FALSE /\ coupling = "none"
    /\ divcont \in {"PTC", "None"}
    /\ maxiter \in 1..MaxIterCfg
    /\ PTC = FALSE
    /\ \E tolres \in TolValues, tolinc \in TolValues :
          tolerances = TolerancesStd(FALSE, tolres, tolinc)
    /\ pc = "idle" /\ it = 0 /\ counter_adapt = 0
    /\ err = FALSE /\ converged = FALSE
    /\ resnorms = NoDict /\ incnorms = NoDict
    /\ upd = {} /\ rst = {}
    /\ x = ZeroVec /\ r = ZeroVec /\ K = ZeroMat
    /\ xs = 0 /\ xe = numdof
    /\ op = "none" /\ a_idx = 0 /\ a_val = 0
    /\ IdleLin /\ IdleCycle /\ IdlePert
    /\ IdleLocal /\ IdleSolve /\ IdleCoupling /\ IdleIni /\ IdleOut /\ IdleMz /\ IdlePTC /\ IdleUpd
    /\ q_pc = [p \in Procs |-> "idle"]
    /\ q_it = [p \in Procs |-> 0]
    /\ q_ca = [p \in Procs |-> 0]
    /\ q_maxiter = [p \in Procs |-> maxiter]
    /\ contributed = {}
    /\ inbox = [p \in Procs |-> <<>>]

NextPar == \E p \in Procs : ParEnter(p) \/ ParContribute(p) \/ ParReturn(p)

SpecPar == InitPar /\ [][NextPar]_vars

\* Every completed reduction is delivered to every process, and a process
\* finishes a pass by returning from one: process p has finished exactly one
\* pass more than process q when q holds one more undelivered result.
Ahead(p, q) == Len(inbox[q]) = Len(inbox[p]) + 1

\* the processes have finished the same number of passes
SamePass(p, q) == Len(inbox[q]) = Len(inbox[p])

\* process p is at a point between two passes, or has ended
Between(p) == q_pc[p] \in {"compute", "converged", "failed"}

\* C12 as claimed: processes that have finished the same number of passes
\* have taken the same decisions, and no process is in pass k+1 while another
\* has not yet returned from the norm reduction of pass k.
C12_NoStartBeforeAllReturned ==
    \A p \in Procs, q \in Procs :
        /\ (SamePass(p, q) /\ Between(p) /\ Between(q)) =>
              (q_pc[p] = q_pc[q] /\ q_it[p] = q_it[q] /\ q_ca[p] = q_ca[q])
        /\ ~(Ahead(p, q) /\ q_pc[q] = "reduce")

\* C12 amended: processes that have finished the same number of passes have
\* the same iteration index, retry counter (hence the same restart
\* decisions), iteration bound and outcome; the processes are never more
\* than one pass apart, and a process is in pass k+1 only when every process
\* has entered the norm reduction of pass k (a process that is behind is
\* inside that reduction, with the reduced norms ready for it).
C12_SameDecisions ==
    \A p \in Procs, q \in Procs :
        /\ (SamePass(p, q) /\ Between(p) /\ Between(q)) =>
              (q_pc[p] = q_pc[q] /\ q_it[p] = q_it[q] /\ q_ca[p] = q_ca[q]
                 /\ q_maxiter[p] = q_maxiter[q])
        /\ Len(inbox[p]) <= 1
        /\ Ahead(p, q) => q_pc[q] = "reduce"

\* both processes ended failed after a restart, with the same counters
C12_Witness ==
    /\ \A p \in Procs : q_pc[p] = "failed" /\ q_ca[p] > 0 /\ q_it[p] > 1
    /\ q_it[1] = q_it[2] /\ q_ca[1] = q_ca[2]

(***************************************************************************)
(* SolidmechanicsSolver.solve_problem: the main time loop.                 *)
(***************************************************************************)
\* number of time steps of the longest run
MaxStep == 3

\* IO_solid.write_output(pb, N=N, t=t): results every write_results_every steps
WriteOutput(N) ==
    IF write_results_every > 0 /\ N % write_results_every = 0
    THEN << <<"write_output", N>> >> ELSE <<>>

\* IO_solid.write_restart(pb, N): a checkpoint every write_restart_every steps
WriteRestart(N) ==
    IF write_restart_every > 0 /\ N % write_restart_every = 0
    THEN << <<"write_restart", N>> >> ELSE <<>>

\* a variant of the loop body that writes the results before it solves
StepTrace_WriteFirst(N, ok) ==
    WriteOutput(N) \o
    (IF ok THEN << <<"newton", N>>, <<"update_timestep", N>> >> \o WriteRestart(N)
     ELSE << <<"raise", N>> >>)

\* the body of the loop for step N, newton returning (ok) or raising
StepTrace(N, ok) ==
    IF ok
    THEN << <<"newton", N>> >> \o WriteOutput(N)
            \o << <<"update_timestep", N>> >> \o WriteRestart(N)
    ELSE << <<"raise", N>> >>

\* one pass of "for N in range(restart_step+1, numstep_stop+1)"; brk is the
\* early stop of the multiscale growth problem after a step
SolveStep ==
    /\ sp_pc = "loop"
    /\ \E ok \in BOOLEAN, brk \in BOOLEAN :
          /\ trace' = trace \o StepTrace(sp_N, ok)
          /\ sp_pc' = IF ~ok THEN "raised"
                       ELSE IF brk \/ sp_N + 1 > numstep_stop THEN "done" ELSE "loop"
          /\ sp_N' = IF ok THEN sp_N + 1 ELSE sp_N
    /\ UNCHANGED <<restart_step, numstep_stop, write_results_every, write_restart_every>>
    /\ UNCHANGED <<newtonVars, lumpedVars, linVars, cycleVars, pertVars, localVars, parVars>>
    /\ UNCHANGED <<cplVars, iniVars, outVars, mzVars, ptcVars, updVars>>

\* solve_problem up to the loop: the mesh output, then the loop range
InitSolve ==
    /\ IdleNewton
    /\ x = ZeroVec /\ r = ZeroVec /\ K = ZeroMat
    /\ xs = 0 /\ xe = numdof
    /\ op = "none" /\ a_idx = 0 /\ a_val = 0
    /\ IdleLin /\ IdleCycle /\ IdlePert
    /\ IdleLocal /\ IdlePar /\ IdleCoupling /\ IdleIni /\ IdleOut /\ IdleMz /\ IdlePTC /\ IdleUpd
    /\ restart_step \in 0..1
    /\ numstep_stop \in 0..MaxStep
    /\ write_results_every \in {0, 1, 2}
    /\ write_restart_every \in {-1, 1, 2}
    /\ sp_N = restart_step + 1
    /\ sp_pc = IF restart_step + 1 > numstep_stop THEN "done" ELSE "loop"
    /\ trace = IF write_results_every > 0 THEN << <<"write_mesh", 0>> >> ELSE <<>>

NextSolve == SolveStep

SpecSolve == InitSolve /\ [][NextSolve]_vars

\* C13: whatever the run has written or updated for a step N (results,
\* time-step update, restart checkpoint) comes after the normal return of
\* newton for that step N, and once newton has raised at a step nothing
\* follows: nothing is written or updated for that step or a later one.
C13_WritesOnlyAfterNewton ==
    \A i \in 1..Len(trace) :
        /\ trace[i][1] \in {"write_output", "update_timestep", "write_restart"} =>
              \E j \in 1..(i - 1) : trace[j] = <<"newton", trace[i][2]>>
        /\ trace[i][1] = "raise" =>
              /\ i = Len(trace)
              /\ sp_pc = "raised"
              /\ \A j \in 1..Len(trace) :
                    trace[j][1] \in {"write_output", "update_timestep", "write_restart"}
                       => trace[j][2] < trace[i][2]

\* a run that wrote results and a checkpoint for a step and raised in a later one
C13_Witness ==
    /\ sp_pc = "raised" /\ Len(trace) > 4
    /\ \E i \in 1..Len(trace), j \in 1..Len(trace) :
          /\ trace[i][1] = "write_output" /\ trace[j][1] = "write_restart"
          /\ trace[Len(trace)] = <<"raise", trace[i][2] + 1>>

\* C14: a pass of solver_nonlinear_ode.newton advances the iteration index by
\* one and never resets it, the index never passes maxiter, the tolerances
\* and the norms carry exactly the keys res_0d and inc_0d, the call returns
\* exactly when both norms are within tolerance, the full undamped increment
\* is added to the unknowns, and the call raises exactly when the pass was
\* number maxiter and did not converge.
C14_OdeProtocol ==
    [][ (ode_pc = "iterating" /\ op' = "ode_newton") =>
          /\ ode_it' = ode_it + 1
          /\ ode_it' <= ode_maxiter
          /\ ode_maxiter' = ode_maxiter
          /\ DOMAIN ode_tol = {"res_0d", "inc_0d"}
          /\ DOMAIN ode_norms' = {"res_0d", "inc_0d"}
          /\ ode_norms'["inc_0d"] = NormSq([i \in dofs |-> x'[i] - x[i]])
          /\ (ode_pc' = "converged") =
                (/\ ode_norms'["res_0d"] <= ode_tol["res_0d"] * ode_tol["res_0d"]
                 /\ ode_norms'["inc_0d"] <= ode_tol["inc_0d"] * ode_tol["inc_0d"])
          /\ (ode_pc' = "failed") = (ode_pc' # "converged" /\ ode_it' = ode_maxiter)
          /\ ode_pc' \in {"iterating", "converged", "failed"} ]_vars

\* a call of the ODE solver that raised after maxiter > 1 passes, the last
\* one with the residual within tolerance and the increment not
C14_Witness ==
    /\ op = "ode_newton" /\ ode_pc = "failed"
    /\ ode_it = ode_maxiter /\ ode_it > 1
    /\ ode_norms["res_0d"] <= ode_tol["res_0d"] * ode_tol["res_0d"]
    /\ ode_norms["inc_0d"] > ode_tol["inc_0d"] * ode_tol["inc_0d"]

(***************************************************************************)
(* cardiovascular0Dbase.set_chamber_interfaces and set_coupling_state.     *)
(***************************************************************************)
\* largest number of 3D interfaces a chamber is configured with
MaxInterf == 3

\* set_chamber_interfaces raises NameError for an unknown chamber model, and
\* for an unknown coupling quantity as soon as a chamber is 3D_fem
InterfacesAccepted ==
    \A ch \in Chambers :
        /\ chmodels[ch] \in {"prescr_elast", "0D_elast", "3D_fem"}
        /\ chmodels[ch] = "3D_fem" => cq \in {"volume", "flux", "pressure"}

\* a variant that takes the first two interfaces of a chamber with more
CouplingState_Lenient(model, n, q, chvars, chfnc) ==
    IF model = "3D_fem"
    THEN [out |-> "ok", c |-> <<chvars[2], chvars[3]>>, fnc |-> <<>>]
    ELSE [out |-> "ok", c |-> <<>>, fnc |-> <<chfnc>>]

\* set_coupling_state for a chamber with model `model`, n interfaces and
\* coupling quantity q; chvars = <<V or Q, p, downstream p>> (chvars[0..2] of
\* the code): the outcome and what is appended to c_ and fnc_
CouplingState(model, n, q, chvars, chfnc) ==
    CASE model \in {"0D_elast", "prescr_elast"} ->
            [out |-> "ok", c |-> <<>>, fnc |-> <<chfnc>>]
      [] model = "3D_fem" /\ n = 1 ->
            [out |-> "ok",
             c |-> IF q \in {"volume", "flux"} THEN <<chvars[1]>>
                   ELSE IF q = "pressure" THEN <<chvars[2]>> ELSE <<>>,
             fnc |-> <<>>]
      [] model = "3D_fem" /\ n = 2 ->
            IF q \in {"volume", "flux"}
            THEN [out |-> "AttributeError", c |-> <<>>, fnc |-> <<>>]
            ELSE [out |-> "ok",
                  c |-> IF q = "pressure" THEN <<chvars[2], chvars[3]>> ELSE <<>>,
                  fnc |-> <<>>]
      [] model = "3D_fem" -> [out |-> "AttributeError", c |-> <<>>, fnc |-> <<>>]
      [] OTHER -> [out |-> "NameError", c |-> <<>>, fnc |-> <<>>]

\* a call set_chamber_interfaces()
SetChamberInterfaces ==
    /\ cs_pc = "config"
    /\ cs_pc' = IF InterfacesAccepted THEN "ready" ELSE "raised"
    /\ UNCHANGED <<chmodels, chinterf, cq, c_, fnc_, cs_ch, cs_out>>
    /\ UNCHANGED <<newtonVars, lumpedVars, linVars, cycleVars, pertVars>>
    /\ UNCHANGED <<localVars, parVars, solveVars, iniVars, outVars, mzVars, ptcVars, updVars>>

\* a call set_coupling_state(ch, chvars, chfncs), as equation_map makes one
\* per chamber once the interfaces are set
SetCouplingState ==
    /\ cs_pc = "ready"
    /\ \E ch \in Chambers :
       \E res \in {CouplingState(chmodels[ch], chinterf[ch], cq,
                                  <<<<"VQ", ch>>, <<"p", ch>>, <<"p_d", ch>>>>,
                                  <<"E", ch>>)} :
          /\ \A i \in 1..Len(c_) : c_[i][2] # ch
          /\ \A i \in 1..Len(fnc_) : fnc_[i][2] # ch
          /\ cs_ch' = ch
          /\ cs_out' = res.out
          /\ c_' = c_ \o res.c
          /\ fnc_' = fnc_ \o res.fnc
          /\ cs_pc' = IF res.out = "ok" THEN "ready" ELSE "raised"
    /\ UNCHANGED <<chmodels, chinterf, cq>>
    /\ UNCHANGED <<newtonVars, lumpedVars, linVars, cycleVars, pertVars>>
    /\ UNCHANGED <<localVars, parVars, solveVars, iniVars, outVars, mzVars, ptcVars, updVars>>

InitCoupling ==
    /\ IdleNewton
    /\ x = ZeroVec /\ r = ZeroVec /\ K = ZeroMat
    /\ xs = 0 /\ xe = numdof
    /\ op = "none" /\ a_idx = 0 /\ a_val = 0
    /\ IdleLin /\ IdleCycle /\ IdlePert
    /\ IdleLocal /\ IdlePar /\ IdleSolve /\ IdleIni /\ IdleOut /\ IdleMz /\ IdlePTC /\ IdleUpd
    /\ chmodels \in [Chambers -> {"0D_elast", "prescr_elast", "3D_fem", "other"}]
    /\ chinterf \in [Chambers -> 0..MaxInterf]
    /\ cq \in {"volume", "flux", "pressure", "other"}
    /\ c_ = <<>> /\ fnc_ = <<>>
    /\ cs_pc = "config" /\ cs_ch = "none" /\ cs_out = "ok"

NextCoupling == SetChamberInterfaces \/ SetCouplingState

SpecCoupling == InitCoupling /\ [][NextCoupling]_vars

\* C15: set_coupling_state raises for a 3D_fem chamber with more than two
\* interfaces and appends nothing; for an accepted 3D_fem chamber it appends
\* exactly one coupling symbol per interface, each a symbol of that chamber,
\* and never more than two; an elastance chamber appends no coupling symbol.
C15_CouplingSymbols ==
    [][ (cs_pc = "ready" /\ cs_ch' \in Chambers) =>
          /\ (chmodels[cs_ch'] = "3D_fem" /\ chinterf[cs_ch'] > 2) =>
                (cs_out' = "AttributeError" /\ c_' = c_ /\ fnc_' = fnc_)
          /\ cs_out' = "ok" =>
                /\ Len(c_') - Len(c_) <= 2
                /\ SubSeq(c_', 1, Len(c_)) = c_
                /\ \A i \in (Len(c_) + 1)..Len(c_') : c_'[i][2] = cs_ch'
                /\ chmodels[cs_ch'] = "3D_fem" =>
                      /\ chinterf[cs_ch'] \in {1, 2}
                      /\ Len(c_') = Len(c_) + chinterf[cs_ch']
                /\ chmodels[cs_ch'] # "3D_fem" => c_' = c_ ]_vars

\* both chambers accepted, one with one and one with two interfaces
C15_Witness ==
    /\ cs_pc = "ready" /\ cs_out = "ok"
    /\ Len(c_) = 3
    /\ \E ch \in Chambers : chmodels[ch] = "3D_fem" /\ chinterf[ch] = 2

\* a chamber with three interfaces was refused
C15_WitnessRefused ==
    /\ cs_pc = "raised" /\ cs_out = "AttributeError"
    /\ cs_ch \in Chambers /\ chmodels[cs_ch] = "3D_fem" /\ chinterf[cs_ch] = 3

(***************************************************************************)
(* write_initial and set_initial_from_file.  A floating-point number is    *)
(* sign * m * 2^e with a mantissa m of MantBits bits; '%.<FmtPrec>E'       *)
(* prints FmtPrec + 1 significant decimal digits, correctly rounded, and   *)
(* float() reads a decimal back to the nearest number.  The code prints    *)
(* 53-bit numbers with '%.16E' (10^16 > 2^53); the model keeps that        *)
(* relation at a small width (10^FmtPrec > 2^MantBits).                    *)
(***************************************************************************)
MantBits == 3
FmtPrec == 1

\* binary exponents of the numbers in the state vectors
Exps == (0 - 3)..0

RECURSIVE Pow(_, _)
Pow(b, n) == IF n <= 0 THEN 1 ELSE b * Pow(b, n - 1)

Zero == [s |-> 1, m |-> 0, e |-> 0]

Floats == {Zero} \cup [s : {1, 0 - 1}, m : Pow(2, MantBits - 1)..(Pow(2, MantBits) - 1), e : Exps]

\* a / b rounded to the nearest integer, ties to even (a >= 0, b > 0)
RoundHalfEven(a, b) ==
    LET q == a \div b
        rem == a % b
    IN  IF 2 * rem > b \/ (2 * rem = b /\ q % 2 = 1) THEN q + 1 ELSE q

\* '%.<prec>E' % f: sign, the prec + 1 digits d and the decimal exponent k
\* of the text, which reads s * d * 10^(k - prec)
FormatE(f, prec) ==
    IF f.m = 0 THEN [s |-> 1, d |-> 0, k |-> 0]
    ELSE LET N  == f.m * Pow(2, f.e)
             Dn == Pow(2, 0 - f.e)
             k  == CHOOSE j \in (0 - 4)..4 :
                      /\ Pow(10, j) * Dn <= N * Pow(10, 0 - j)
                      /\ N * Pow(10, 0 - (j + 1)) < Pow(10, j + 1) * Dn
             d0 == RoundHalfEven(N * Pow(10, prec - k), Dn * Pow(10, k - prec))
         IN  IF d0 = Pow(10, prec + 1)
             THEN [s |-> f.s, d |-> Pow(10, prec), k |-> k + 1]
             ELSE [s |-> f.s, d |-> d0, k |-> k]

\* float(text) for a text of FormatE with prec digits after the point
ParseFloat(txt, prec) ==
    IF txt.d = 0 THEN Zero
    ELSE LET A  == txt.d * Pow(10, txt.k - prec)
             B  == Pow(10, prec - txt.k)
             e  == CHOOSE j \in (0 - 6)..6 :
                      /\ Pow(2, MantBits - 1) * Pow(2, j) * B <= A * Pow(2, 0 - j)
                      /\ A * Pow(2, 0 - j) < Pow(2, MantBits) * Pow(2, j) * B
             m0 == RoundHalfEven(A * Pow(2, 0 - e), B * Pow(2, e))
         IN  IF m0 = Pow(2, MantBits)
             THEN [s |-> txt.s, m |-> Pow(2, MantBits - 1), e |-> e + 1]
             ELSE [s |-> txt.s, m |-> m0, e |-> e]

\* a variant that prints one digit less
InitialLine_Short(name, val) == <<<<name, "_0">>, FormatE(val, FmtPrec - 1)>>

\* the line '%s %.16E' % (name+'_0', val), as its two blank-separated fields
InitialLine(name, val) == <<<<name, "_0">>, FormatE(val, FmtPrec)>>

\* the lines write_initial writes for the state vector vec
InitialLines(vec) ==
    [i \in 1..Len(varmap) |-> InitialLine(varmap[i][1], vec[varmap[i][2]])]

\* write_initial(path, varTc_old, varTc) on rank 0; both files are opened 'wt'
WriteInitial ==
    /\ ~f1.exists
    /\ f1' = [exists |-> TRUE, lines |-> InitialLines(varTc_old_sq)]
    /\ f2' = [exists |-> TRUE, lines |-> InitialLines(varTc_sq)]
    /\ UNCHANGED <<varmap, varTc_old_sq, varTc_sq, initialdata, pini0D>>
    /\ UNCHANGED <<newtonVars, lumpedVars, linVars, cycleVars, pertVars>>
    /\ UNCHANGED <<localVars, parVars, solveVars, cplVars, outVars, mzVars, ptcVars, updVars>>

\* the dictionary set_initial_from_file builds from the lines of a file: a
\* later line with the same key overrides an earlier one
ReadInitial(lines) ==
    [key \in {lines[i][1] : i \in 1..Len(lines)} |->
        LET last == CHOOSE i \in 1..Len(lines) :
                        /\ lines[i][1] = key
                        /\ \A j \in (i + 1)..Len(lines) : lines[j][1] # key
        IN  ParseFloat(lines[last][2], FmtPrec)]

\* a call set_initial_from_file(initialdata) on one of the two files
SetInitialFromFile ==
    /\ f1.exists /\ f2.exists
    /\ \E which \in {"Tstart", "Tend"} :
          /\ initialdata' = which
          /\ pini0D' = ReadInitial(IF which = "Tstart" THEN f1.lines ELSE f2.lines)
    /\ UNCHANGED <<varmap, varTc_old_sq, varTc_sq, f1, f2>>
    /\ UNCHANGED <<newtonVars, lumpedVars, linVars, cycleVars, pertVars>>
    /\ UNCHANGED <<localVars, parVars, solveVars, cplVars, outVars, mzVars, ptcVars, updVars>>

\* names and indices of the 0D variables
VarNames == {"q_vin_l", "p_at_l"}
VarIdx == 0..1

\* variable maps: up to two names, each once, in any order, on any index
VarMaps ==
    {<<>>} \cup {<<<<n, i>>>> : n \in VarNames, i \in VarIdx}
           \cup {vm \in {<<<<n1, i1>>, <<n2, i2>>>> :
                             n1 \in VarNames, n2 \in VarNames, i1 \in VarIdx, i2 \in VarIdx} :
                    vm[1][1] # vm[2][1]}

InitIni ==
    /\ IdleNewton
    /\ x = ZeroVec /\ r = ZeroVec /\ K = ZeroMat
    /\ xs = 0 /\ xe = numdof
    /\ op = "none" /\ a_idx = 0 /\ a_val = 0
    /\ IdleLin /\ IdleCycle /\ IdlePert
    /\ IdleLocal /\ IdlePar /\ IdleSolve /\ IdleCoupling /\ IdleOut /\ IdleMz /\ IdlePTC /\ IdleUpd
    /\ varmap \in VarMaps
    /\ varTc_sq \in [VarIdx -> Floats]
    /\ varTc_old_sq \in [VarIdx -> {Zero, [s |-> 0 - 1, m |-> Pow(2, MantBits) - 1, e |-> 1]}]
    /\ f1 = NoFile /\ f2 = NoFile
    /\ initialdata = "none" /\ pini0D = NoDict

NextIni == WriteInitial \/ SetInitialFromFile

SpecIni == InitIni /\ [][NextIni]_vars

\* C16: the dictionary read back from the end-of-cycle file has exactly the
\* keys name+'_0' of the variable map, each with the value of varTc at the
\* index of the name, and the one read back from the start-of-cycle file has
\* the same keys with the values of varTc_old.
C16_RoundTrip ==
    initialdata # "none" =>
        LET vec == IF initialdata = "Tend" THEN varTc_sq ELSE varTc_old_sq
        IN  /\ DOMAIN pini0D = {<<varmap[i][1], "_0">> : i \in 1..Len(varmap)}
            /\ \A i \in 1..Len(varmap) :
                   pini0D[<<varmap[i][1], "_0">>] = vec[varmap[i][2]]

\* two variables on different indices, read back from the end-of-cycle file,
\* with a value whose digits are rounded when printed
C16_Witness ==
    /\ initialdata = "Tend"
    /\ Len(varmap) = 2 /\ varmap[1][2] # varmap[2][2]
    /\ \E i \in VarIdx : varTc_sq[i] = [s |-> 0 - 1, m |-> Pow(2, MantBits) - 1, e |-> 0 - 3]
    /\ varTc_sq[0] # varTc_sq[1]

(***************************************************************************)
(* cardiovascular0Dbase.write_output on rank 0.                            *)
(***************************************************************************)
\* largest number of write_output calls
MaxCalls == 3

\* a variant that never truncates
Mode_Append(first) == "a"

\* mode: 'wt' generates a new file, 'a' appends to an existing one
Mode(first) == IF first THEN "wt" ELSE "a"

\* f = open(filename, mode); f.write(line); f.close()
WriteLine(files, name, mode, line) ==
    [n \in DOMAIN files \cup {name} |->
        IF n # name THEN files[n]
        ELSE IF mode = "a" /\ name \in DOMAIN files THEN Append(files[name], line)
        ELSE <<line>>]

\* the loop over a map: one line '%.16E %.16E' % (t, vec[index]) per name
RECURSIVE WriteMap(_, _, _, _, _)
WriteMap(files, map, mode, tt, vec) ==
    IF map = <<>> THEN files
    ELSE WriteMap(WriteLine(files, map[1][1], mode,
                            <<FormatE(tt, FmtPrec), FormatE(vec[map[1][2]], FmtPrec)>>),
                  Tail(map), mode, tt, vec)

\* times and values handed to write_output
OutTimes == {[s |-> 1, m |-> Pow(2, MantBits - 1), e |-> 0],
             [s |-> 1, m |-> Pow(2, MantBits) - 1, e |-> 0 - 1]}
OutVals == {Zero, [s |-> 0 - 1, m |-> Pow(2, MantBits) - 1, e |-> 0 - 3]}
AuxIdx == {0}
AuxVals == {[s |-> 1, m |-> Pow(2, MantBits - 1), e |-> 1]}

\* a call write_output(path, t, var, aux)
WriteOutput0D ==
    /\ Len(calls) < MaxCalls
    /\ \E tt \in OutTimes, var_sq \in [VarIdx -> OutVals], auxv \in [AuxIdx -> AuxVals] :
       \E mode \in {Mode(init)} :
          /\ init' = FALSE
          /\ outfiles' = WriteMap(WriteMap(outfiles, varmap, mode, tt, var_sq),
                                  auxmap, mode, tt, auxv)
          /\ calls' = Append(calls, <<tt, var_sq, auxv>>)
    /\ UNCHANGED auxmap
    /\ UNCHANGED <<newtonVars, lumpedVars, linVars, cycleVars, pertVars>>
    /\ UNCHANGED <<localVars, parVars, solveVars, cplVars, iniVars, mzVars, ptcVars, updVars>>

\* what an earlier run left in the output directory
StaleLine == <<FormatE(Zero, FmtPrec), FormatE(Zero, FmtPrec)>>

\* a fresh model object; the directory is empty or holds the files of an
\* earlier run; auxiliary names differ from the variable names
InitOut ==
    /\ IdleNewton
    /\ x = ZeroVec /\ r = ZeroVec /\ K = ZeroMat
    /\ xs = 0 /\ xe = numdof
    /\ op = "none" /\ a_idx = 0 /\ a_val = 0
    /\ IdleLin /\ IdleCycle /\ IdlePert
    /\ IdleLocal /\ IdlePar /\ IdleSolve /\ IdleCoupling /\ IdleMz /\ IdlePTC /\ IdleUpd
    /\ varmap \in VarMaps
    /\ varTc_old_sq = <<>> /\ varTc_sq = <<>>
    /\ f1 = NoFile /\ f2 = NoFile
    /\ initialdata = "none" /\ pini0D = NoDict
    /\ auxmap \in {<<>>, <<<<"V_v_l", 0>>>>}
    /\ init = TRUE
    /\ outfiles \in {NoDict, [n \in VarNames \cup {"V_v_l"} |-> <<StaleLine>>]}
    /\ calls = <<>>

NextOut == WriteOutput0D

SpecOut == InitOut /\ [][NextOut]_vars

\* the lines the calls so far have written for index idx of var (which = 2)
\* or of aux (which = 3)
LinesOf(which, idx) ==
    [j \in 1..Len(calls) |->
        <<FormatE(calls[j][1], FmtPrec), FormatE(calls[j][which][idx], FmtPrec)>>]

\* C17: only the first write_output call of a model object truncates, every
\* later one appends: after n >= 1 calls the file of each variable and of
\* each auxiliary quantity holds exactly the n lines '<time> <value>' of the
\* calls, in call order.
C17_OneLinePerCall ==
    /\ init = (Len(calls) = 0)
    /\ Len(calls) >= 1 =>
          /\ \A i \in 1..Len(varmap) :
                 /\ varmap[i][1] \in DOMAIN outfiles
                 /\ outfiles[varmap[i][1]] = LinesOf(2, varmap[i][2])
          /\ \A i \in 1..Len(auxmap) :
                 /\ auxmap[i][1] \in DOMAIN outfiles
                 /\ outfiles[auxmap[i][1]] = LinesOf(3, auxmap[i][2])

\* three calls with different times over files of an earlier run
C17_Witness ==
    /\ Len(calls) = MaxCalls
    /\ calls[1][1] # calls[2][1]
    /\ Len(varmap) = 2 /\ Len(auxmap) = 1
    /\ \A n \in DOMAIN outfiles : Len(outfiles[n]) = MaxCalls /\ outfiles[n][1] # StaleLine

(***************************************************************************)
(* IsRelativeEqualTo and ModuloIsRelativeZero in floating point: every     *)
(* arithmetic result is rounded to a mantissa of MantBits bits, math.fmod  *)
(* is exact.  A number is the fraction n / d.  The tolerance 1.0e-12 of    *)
(* the code is 2^12 units in the last place of 1.0 at 53 bits; the model   *)
(* takes one unit in the last place of 1.0 at its width.                   *)
(***************************************************************************)
\* largest multiple of the period tried
MaxMult == 16

\* n / d rounded to the nearest floating-point number, ties to even (d > 0)
Fl(n, d) ==
    IF n = 0 THEN [n |-> 0, d |-> 1]
    ELSE LET a  == Abs(n)
             e  == CHOOSE j \in (0 - 14)..14 :
                      /\ Pow(2, MantBits - 1) * Pow(2, j) * d <= a * Pow(2, 0 - j)
                      /\ a * Pow(2, 0 - j) < Pow(2, MantBits) * Pow(2, j) * d
             m0 == RoundHalfEven(a * Pow(2, 0 - e), d * Pow(2, e))
         IN  [n |-> (IF n < 0 THEN 0 - 1 ELSE 1) * m0 * Pow(2, e), d |-> Pow(2, 0 - e)]

\* n / d is a floating-point number
Representable(n, d) == Fl(n, d).n * d = n * Fl(n, d).d

FlAdd(a, b) == Fl(a.n * b.d + b.n * a.d, a.d * b.d)
FlSub(a, b) == Fl(a.n * b.d - b.n * a.d, a.d * b.d)
FlDiv(a, b) == Fl(a.n * b.d, a.d * b.n)

\* math.fmod(a, b) for a >= 0, b > 0: a - b * floor(a / b), exact
FlFmod(a, b) == [n |-> (a.n * b.d) % (b.n * a.d), d |-> a.d * b.d]

\* the tolerance of IsRelativeEqualTo
RelTol == [n |-> 1, d |-> Pow(2, MantBits - 1)]

\* (math.fabs(A-B)/Ref) < tolerance
IsRelativeEqualTo_fp(A, B, Ref) ==
    LET diff == FlSub(A, B)
        q    == FlDiv([n |-> Abs(diff.n), d |-> diff.d], Ref)
    IN  q.n * RelTol.d < RelTol.n * q.d

\* IsRelativeEqualTo(math.fmod(value+modulo/2.,modulo)-modulo/2.,0.0,Ref)
ModuloIsRelativeZero_fp(value, modulo, Ref) ==
    LET half == Fl(modulo.n, 2 * modulo.d)
    IN  IsRelativeEqualTo_fp(FlSub(FlFmod(FlAdd(value, half), modulo), half),
                             [n |-> 0, d |-> 1], Ref)

\* periods: every mantissa, a few exponents
Periods ==
    {[n |-> m * Pow(2, e), d |-> Pow(2, 0 - e)] :
        m \in Pow(2, MantBits - 1)..(Pow(2, MantBits) - 1), e \in (0 - 2)..2}

\* a call ModuloIsRelativeZero(value, modulo, Ref) with value = k2 * modulo / 2
\* a floating-point number, and Ref the period (as claimed) or the value (as
\* cycle_check calls it)
ModuloCall ==
    /\ \E k2 \in 1..(2 * MaxMult), refIsValue \in BOOLEAN :
          /\ Representable(k2 * mz_modulo.n, 2 * mz_modulo.d)
          /\ mz_value' = Fl(k2 * mz_modulo.n, 2 * mz_modulo.d)
          /\ mz_Ref' = IF refIsValue THEN mz_value' ELSE mz_modulo
          /\ mz_result' = IF ModuloIsRelativeZero_fp(mz_value', mz_modulo, mz_Ref')
                          THEN "True" ELSE "False"
    /\ UNCHANGED mz_modulo
    /\ UNCHANGED <<newtonVars, lumpedVars, linVars, cycleVars, pertVars>>
    /\ UNCHANGED <<localVars, parVars, solveVars, cplVars, iniVars, outVars, ptcVars, updVars>>

InitMz ==
    /\ IdleNewton
    /\ x = ZeroVec /\ r = ZeroVec /\ K = ZeroMat
    /\ xs = 0 /\ xe = numdof
    /\ op = "none" /\ a_idx = 0 /\ a_val = 0
    /\ IdleLin /\ IdleCycle /\ IdlePert
    /\ IdleLocal /\ IdlePar /\ IdleSolve /\ IdleCoupling /\ IdleIni /\ IdleOut /\ IdlePTC /\ IdleUpd
    /\ mz_modulo \in Periods
    /\ mz_value = [n |-> 0, d |-> 1]
    /\ mz_Ref = mz_modulo
    /\ mz_result = "none"

NextMz == ModuloCall

SpecMz == InitMz /\ [][NextMz]_vars

\* value is the k-th multiple of modulo
IsMultiple(k) == mz_value.n * mz_modulo.d = k * mz_modulo.n * mz_value.d

\* C18: ModuloIsRelativeZero(t, T, T) is true for every t that is a positive
\* integer multiple of T, and false for t = T/2.
C18_MultiplesAreZero ==
    (mz_result # "none" /\ mz_Ref = mz_modulo) =>
        /\ \A k \in 1..MaxMult : IsMultiple(k) => mz_result = "True"
        /\ 2 * mz_value.n * mz_modulo.d = mz_modulo.n * mz_value.d => mz_result = "False"

\* With the value itself as the reference, as cycle_check calls it, every
\* multiple is accepted; with the period as the reference the multiples up
\* to 2 are, and half a period is refused.
C18_SmallMultiples ==
    mz_result # "none" =>
        /\ mz_Ref = mz_value => \A k \in 1..MaxMult : IsMultiple(k) => mz_result = "True"
        /\ mz_Ref = mz_modulo =>
              /\ \A k \in 1..2 : IsMultiple(k) => mz_result = "True"
              /\ 2 * mz_value.n * mz_modulo.d = mz_modulo.n * mz_value.d => mz_result = "False"

(***************************************************************************)
(* The Newton drivers with a local (Gauss-point) Newton loop in each pass. *)
(***************************************************************************)
\* maxiter_local, the default of newton_local
maxiter_local == 20

\* a variant that turns the failure of the local loop into a restart
AfterLocalFailure_Retry(i, ca) == [pc |-> "iterating", it |-> 0, ca |-> ca + 1]

\* the while-else of newton_local raises RuntimeError; nothing between the
\* call and the caller of newton catches it
AfterLocalFailure(i, ca) == [pc |-> "failed_local", it |-> i, ca |-> ca]

\* one pass of the loop of either newton with pb.localsolve set: the
\* newton_local calls at the top of the pass either all break out of their
\* loops, and the pass goes on as without them, or one of them runs out of
\* its maxiter_local iterations
NewtonLocalPass ==
    /\ pc = "iterating"
    /\ localsolve
    /\ \/ /\ \E rn \in [(IF kind = "std" THEN ResKeysStd(two_field)
                                          ELSE ResKeysMono(two_field)) -> Norms],
                inn \in [(IF kind = "std" THEN IncKeysStd(two_field)
                                           ELSE IncKeysMono(two_field)) -> Norms],
                e \in ErrValues :
                  /\ upd' = IF kind = "std" THEN UpdatedStd(two_field)
                            ELSE UpdatedMono(two_field, coupling)
                  /\ IterTail(rn, inn, e, IF kind = "std" THEN ResetStd(two_field)
                                          ELSE ResetMono(two_field))
          /\ UNCHANGED it_local
       \/ /\ \E a \in {AfterLocalFailure(it, counter_adapt)} :
                  /\ pc' = a.pc
                  /\ it' = a.it
                  /\ counter_adapt' = a.ca
          /\ it_local' = maxiter_local
          /\ UNCHANGED <<maxiter, PTC, err, converged, resnorms, incnorms, upd, rst>>
    /\ UNCHANGED <<kind, two_field, coupling, divcont, tolerances>>
    /\ UNCHANGED localsolve
    /\ UNCHANGED <<lumpedVars, linVars, cycleVars, pertVars>>
    /\ UNCHANGED <<parVars, solveVars, cplVars, iniVars, outVars, mzVars, ptcVars, updVars>>

\* a solid or coupled problem whose material needs the local loop
InitLocal ==
    /\ kind \in {"std", "mono"}
    /\ two_field = FALSE
    /\ coupling \in (IF kind = "std" THEN {"none"}
                     ELSE {"monolithic_direct", "monolithic_lagrange"})
    /\ divcont \in {"PTC", "None"}
    /\ maxiter \in 1..MaxIterCfg
    /\ PTC = FALSE
    /\ \E tolres \in TolValues, tolinc \in TolValues,
          tolres0D \in TolValues, tolinc0D \in TolValues :
          tolerances = IF kind = "std"
                       THEN TolerancesStd(two_field, tolres, tolinc)
                       ELSE TolerancesMono(two_field, tolres, tolinc, tolres0D, tolinc0D)
    /\ pc = "idle" /\ it = 0 /\ counter_adapt = 0
    /\ err = FALSE /\ converged = FALSE
    /\ resnorms = NoDict /\ incnorms = NoDict
    /\ upd = {} /\ rst = {}
    /\ x = ZeroVec /\ r = ZeroVec /\ K = ZeroMat
    /\ xs = 0 /\ xe = numdof
    /\ op = "none" /\ a_idx = 0 /\ a_val = 0
    /\ IdleLin /\ IdleCycle /\ IdlePert
    /\ localsolve = TRUE /\ it_local = 0
    /\ IdlePar /\ IdleSolve /\ IdleCoupling /\ IdleIni /\ IdleOut /\ IdleMz /\ IdlePTC /\ IdleUpd

NextLocal == NewtonCall \/ NewtonLocalPass

SpecLocal == InitLocal /\ [][NextLocal]_vars

\* C19: when a newton_local call runs out of its 20 iterations, newton is
\* left at once with a fatal error: the iteration index and the retry counter
\* are as before the pass, no restart is flagged, the PTC switch and the
\* iteration bound are untouched, also with divergence_continue = 'PTC'; and
\* the failed call is final, newton does not go on or start again.
C19_LocalFailureIsFatal ==
    [][ /\ it_local' # it_local =>
            /\ it_local' = maxiter_local
            /\ pc' = "failed_local"
            /\ it' = it /\ counter_adapt' = counter_adapt
            /\ PTC' = PTC /\ maxiter' = maxiter
            /\ err' = err /\ rst' = rst /\ upd' = upd
        /\ pc = "failed_local" => pc' = "failed_local" ]_vars

\* the local loop failed in a pass after a PTC restart
C19_Witness ==
    /\ pc = "failed_local" /\ it_local = maxiter_local
    /\ divcont = "PTC" /\ PTC /\ counter_adapt >= 1

\* C20: on every divergence-triggered restart, each unknown block the pass
\* has updated (u, p when active, s with monolithic_direct coupling, the
\* Lagrange multipliers with monolithic_lagrange coupling) is set back to
\* the value it had when newton was entered.
C20_RestartRestoresUpdated ==
    (pc # "idle" /\ err) => upd \subseteq rst

\* Without monolithic_lagrange coupling every updated block is set back.
C20_RestoredUnlessLagrange ==
    (pc # "idle" /\ err /\ coupling # "monolithic_lagrange") => upd \subseteq rst

(***************************************************************************)
(* The PTC factor k_PTC of the Newton drivers.  Numbers are fractions      *)
(* n / d in lowest terms.  The norms of a pass come from collective        *)
(* reductions and are the same on every process, so the processes make     *)
(* their passes together; each process holds its own k_PTC.                *)
(***************************************************************************)
RECURSIVE Gcd(_, _)
Gcd(a, b) == IF b = 0 THEN a ELSE Gcd(b, a % b)

\* n / d in lowest terms (n >= 0, d > 0)
Frac(n, d) == IF n = 0 THEN [n |-> 0, d |-> 1]
              ELSE [n |-> n \div Gcd(n, d), d |-> d \div Gcd(n, d)]

\* a * (num / den)
FracMul(a, num, den) == Frac(a.n * num, a.d * den)

\* a <= b
FracLe(a, b) == a.n * b.d <= b.n * a.d

\* ptc_randadapt_range: the default of solver_nonlinear.__init__
PTC_randadapt_range == <<Frac(85, 100), Frac(135, 100)>>

\* values np.random.uniform(PTC_randadapt_range[0], PTC_randadapt_range[1])
\* may return: the ends of the range and a value inside
RandDraws == {PTC_randadapt_range[1], Frac(1, 1), PTC_randadapt_range[2]}

\* passes followed within one (re)started run, and restarts followed
MaxRunLen == 4
MaxRetries == 3

\* residual norms of the continuum block, 0 included
ResNorms == Norms \cup {0}

\* a variant that multiplies by the inverse ratio
RatioUpdate_Inverse(k, ptc, it1, res, last) ==
    IF ptc /\ it1 > 1 /\ last > 0 /\ res > 0 THEN FracMul(k, last, res) ELSE k

\* "if self.PTC and it > 1 and struct_res_u_norm_last > 0.: k_PTC *=
\* resnorms['res_u']/struct_res_u_norm_last", it1 the index after "it += 1"
RatioUpdate(k, ptc, it1, res, last) ==
    IF ptc /\ it1 > 1 /\ last > 0 THEN FracMul(k, res, last) ELSE k

\* a variant that damps the accumulated factor
RestartFactor_Accumulated(k, f) == FracMul(k, f.n, f.d)

\* "k_PTC = self.k_PTC_initial; k_PTC *= np.random.uniform(...)", f the draw
RestartFactor(k, f) == FracMul(k_PTC_initial, f.n, f.d)

\* entry of newton: it = 0, k_PTC = self.k_PTC_initial, counter_adapt = 0
NewtonPTCCall ==
    /\ pc \in {"idle", "converged"}
    /\ it' = 0
    /\ counter_adapt' = 0
    /\ err' = FALSE
    /\ converged' = FALSE
    /\ resnorms' = NoDict
    /\ incnorms' = NoDict
    /\ upd' = {}
    /\ rst' = {}
    /\ pc' = IF LoopCond(0, maxiter, 0) THEN "iterating" ELSE "failed"
    /\ k_PTC' = [p \in Procs |-> k_PTC_initial]
    /\ struct_res_u_norm_last' = 0
    /\ UNCHANGED <<kind, two_field, coupling, divcont, maxiter, PTC, tolerances>>
    /\ UNCHANGED <<lumpedVars, linVars, cycleVars, pertVars>>
    /\ UNCHANGED <<localVars, parVars, solveVars, cplVars, iniVars, outVars, mzVars, updVars>>

\* one pass of the loop of either newton on all processes: the ratio update
\* after "it += 1", then the restart block, in which every process makes its
\* own draw from np.random
NewtonPTCPass ==
    /\ pc = "iterating"
    /\ it < MaxRunLen /\ counter_adapt < MaxRetries
    /\ \E rn \in [(IF kind = "std" THEN ResKeysStd(two_field)
                                    ELSE ResKeysMono(two_field)) -> ResNorms],
          inn \in [(IF kind = "std" THEN IncKeysStd(two_field)
                                     ELSE IncKeysMono(two_field)) -> Norms],
          e \in ErrValues :
            /\ upd' = IF kind = "std" THEN UpdatedStd(two_field)
                      ELSE UpdatedMono(two_field, coupling)
            /\ IterTail(rn, inn, e, IF kind = "std" THEN ResetStd(two_field)
                                    ELSE ResetMono(two_field))
            /\ struct_res_u_norm_last' = rn["res_u"]
            /\ IF Restart(divcont, e)
               THEN \E f \in [Procs -> RandDraws] :
                      k_PTC' = [p \in Procs |->
                                  RestartFactor(RatioUpdate(k_PTC[p], PTC, it + 1, rn["res_u"],
                                                            struct_res_u_norm_last), f[p])]
               ELSE k_PTC' = [p \in Procs |->
                                 RatioUpdate(k_PTC[p], PTC, it + 1, rn["res_u"],
                                             struct_res_u_norm_last)]
    /\ UNCHANGED <<kind, two_field, coupling, divcont, tolerances>>
    /\ UNCHANGED <<lumpedVars, linVars, cycleVars, pertVars>>
    /\ UNCHANGED <<localVars, parVars, solveVars, cplVars, iniVars, outVars, mzVars, updVars>>

InitPTC ==
    /\ kind \in {"std", "mono"}
    /\ two_field = FALSE
    /\ coupling = (IF kind = "std" THEN "none" ELSE "monolithic_direct")
    /\ divcont \in {"PTC", "None"}
    /\ maxiter \in 1..MaxIterCfg
    /\ PTC \in BOOLEAN
    /\ \E tolres \in TolValues, tolinc \in TolValues,
          tolres0D \in TolValues, tolinc0D \in TolValues :
          tolerances = IF kind = "std"
                       THEN TolerancesStd(two_field, tolres, tolinc)
                       ELSE TolerancesMono(two_field, tolres, tolinc, tolres0D, tolinc0D)
    /\ pc = "idle" /\ it = 0 /\ counter_adapt = 0
    /\ err = FALSE /\ converged = FALSE
    /\ resnorms = NoDict /\ incnorms = NoDict
    /\ upd = {} /\ rst = {}
    /\ IdleLumped

NextPTC == NewtonPTCCall \/ NewtonPTCPass

SpecPTC == InitPTC /\ [][NextPTC]_vars

\* C21: a pass that catch_solver_errors flags and that is not declared
\* converged sets the iteration index to 0, adds exactly one to the retry
\* counter, switches PTC on, and leaves on every process the factor
\* k_PTC_initial times a draw from ptc_randadapt_range, whatever the factor
\* was before.
C21_RestartState ==
    [][ (divcont = "PTC" /\ pc = "iterating" /\ err' /\ ~converged') =>
          /\ it' = 0
          /\ counter_adapt' = counter_adapt + 1
          /\ PTC'
          /\ \A p \in Procs :
                /\ FracLe(FracMul(k_PTC_initial, PTC_randadapt_range[1].n,
                                  PTC_randadapt_range[1].d), k_PTC'[p])
                /\ FracLe(k_PTC'[p], FracMul(k_PTC_initial, PTC_randadapt_range[2].n,
                                             PTC_randadapt_range[2].d)) ]_vars

\* the state after the second restart of a call
C21_Witness ==
    /\ divcont = "PTC" /\ pc = "iterating" /\ err /\ it = 0
    /\ counter_adapt = 2 /\ PTC
    /\ struct_res_u_norm_last = 2

\* C22: in a pass without restart the factor of every process is multiplied
\* by the ratio of this pass's continuum residual norm to the previous one
\* when PTC is on, the pass is not the first of its run and the previous norm
\* is positive, so it grows with a growing residual and shrinks with a
\* shrinking one; otherwise it is left as it is.
C22_RatioUpdate ==
    [][ (pc = "iterating" /\ ~err') =>
          \A p \in Procs :
             IF PTC /\ it >= 1 /\ struct_res_u_norm_last > 0
             THEN /\ k_PTC'[p].n * k_PTC[p].d * struct_res_u_norm_last
                        = k_PTC[p].n * struct_res_u_norm_last' * k_PTC'[p].d
                  /\ struct_res_u_norm_last' > struct_res_u_norm_last =>
                        FracLe(k_PTC[p], k_PTC'[p])
                  /\ struct_res_u_norm_last' < struct_res_u_norm_last =>
                        FracLe(k_PTC'[p], k_PTC[p])
             ELSE k_PTC'[p] = k_PTC[p] ]_vars

\* the factor has been halved by a shrinking residual
C22_Witness ==
    /\ pc = "iterating" /\ PTC /\ it >= 2 /\ ~err
    /\ struct_res_u_norm_last = 1
    /\ \E p \in Procs : k_PTC[p].n * 2 * k_PTC_initial.d < k_PTC_initial.n * k_PTC[p].d

\* C28: the PTC factor is the same on all processes, initially, after every
\* ratio update and after every restart.
C28_SameFactorEverywhere ==
    \A p \in Procs, q \in Procs : k_PTC[p] = k_PTC[q]

C27_IterationBound ==
    [][ /\ pc = "iterating" =>
              maxiter' = (IF divcont = "PTC" THEN maxiter_PTC ELSE maxiter)
        /\ pc # "iterating" => maxiter' = maxiter
        /\ (pc = "iterating" /\ ~converged' /\ ~err') =>
              ((pc' = "failed") =
                 (it' >= (IF divcont = "PTC" THEN maxiter_PTC ELSE maxiter))) ]_vars

\* a call with continuation that is past the configured number of passes,
\* started with the bound already at 250
C27_Witness ==
    /\ divcont = "PTC" /\ pc = "iterating"
    /\ maxiter = maxiter_PTC /\ it > MaxIterCfg /\ counter_adapt = 0


Pos(seq, step) == CHOOSE i \in 1..Len(seq) : seq[i] = step

\* the call fires
FiredCall ==
    /\ op' = "induce_perturbation"
    /\ p_after' > 0 /\ ~have_induced_pert /\ p_cycle' > p_after'

\* C23: a firing call executes, after the parameter mutation, setup_arrays,
\* set_chamber_interfaces, equation_map, set_stiffness, lambdify_expressions
\* in this order, each once, and sets have_induced_pert last; when it returns
\* the compiled callables are those of the mutated parameters.
C23_RebuildOrder ==
    [][ FiredCall =>
          /\ Len(steps') = 7
          /\ steps'[1] = "mutate"
          /\ steps'[2] = "setup_arrays"
          /\ steps'[3] = "set_chamber_interfaces"
          /\ steps'[4] = "equation_map"
          /\ steps'[5] = "set_stiffness"
          /\ steps'[6] = "lambdify_expressions"
          /\ steps'[7] = "set_flag"
          /\ have_induced_pert'
          /\ tab_fn' = params'
          /\ params' = Perturbed(params, p_type') ]_vars

\* a mitral regurgitation has been induced and compiled
C23_Witness ==
    /\ op = "induce_perturbation" /\ p_type = "mr" /\ Len(steps) = 7
    /\ have_induced_pert /\ tab_fn.R_vin_l_max = "1.0e-5"

\* C24 as claimed: a firing call rebuilds the symbolic equations, then
\* recompiles the callables, then re-differentiates the Jacobian tables.
C24_RebuildCompileDifferentiate ==
    [][ FiredCall =>
          /\ Pos(steps', "equation_map") < Pos(steps', "lambdify_expressions")
          /\ Pos(steps', "lambdify_expressions") < Pos(steps', "set_stiffness") ]_vars

\* C24 amended: a firing call rebuilds the symbolic equations, then
\* re-differentiates the Jacobian tables, then recompiles the callables, and
\* afterwards the symbolic tables, the Jacobian tables and the callables all
\* derive from the current parameters.
C24_RebuildDifferentiateCompile ==
    [][ FiredCall =>
          /\ Pos(steps', "equation_map") < Pos(steps', "set_stiffness")
          /\ Pos(steps', "set_stiffness") < Pos(steps', "lambdify_expressions")
          /\ tab_sym' = params'
          /\ tab_K' = tab_sym'
          /\ tab_fn' = tab_K' ]_vars

\* after an induced aortic stenosis all three tables carry the new resistance
C24_Witness ==
    /\ op = "induce_perturbation" /\ p_type = "as" /\ rebuilds = 1
    /\ tab_sym.R_vout_l_min = "5.0e-5"
    /\ tab_K.R_vout_l_min = "5.0e-5"
    /\ tab_fn.R_vout_l_min = "5.0e-5"

\* C30: a firing call with a kind other than mr, ms, ar, as changes no
\* parameter, still runs the rebuild and sets have_induced_pert, so that no
\* later call fires; a firing call with a recognised kind changes exactly
\* the one valve resistance of that kind and no other parameter.
C30_UnknownKind ==
    [][ FiredCall =>
          /\ rebuilds' = rebuilds + 1
          /\ have_induced_pert'
          /\ p_type' \notin {"mr", "ms", "ar", "as"} => params' = params
          /\ p_type' \in {"mr", "ms", "ar", "as"} =>
                \E k \in {IF p_type' = "mr" THEN "R_vin_l_max"
                           ELSE IF p_type' = "ms" THEN "R_vin_l_min"
                           ELSE IF p_type' = "ar" THEN "R_vout_l_max"
                           ELSE "R_vout_l_min"} :
                   /\ params'[k] # params[k]
                   /\ \A j \in DOMAIN params \ {k} : params'[j] = params[j] ]_vars

\* a call with an unknown kind has fired, and a later call past the threshold
\* did nothing
C30_Witness ==
    /\ op = "induce_perturbation" /\ have_induced_pert /\ rebuilds = 1
    /\ params = ParamsCfg /\ tab_fn = ParamsCfg
    /\ steps = <<>> /\ p_after > 0 /\ p_cycle > p_after

(***************************************************************************)
(* The time step update of the lumped model: cardiovascular0Dbase.update   *)
(* copies the current vectors into the old ones over the range the         *)
(* process owns.                                                           *)
(***************************************************************************)
\* ranges update loops over: all of a numpy array, or the ownership range of
\* one of two processes
OwnRanges == {[vs |-> 0, ve |-> numdof], [vs |-> 0, ve |-> 1], [vs |-> 1, ve |-> numdof]}

\* a variant that leaves the auxiliary vector out
Commit_NoAux(c, o, rg) ==
    [v \in VecNames |-> [i \in dofs |->
        IF rg.vs <= i /\ i < rg.ve /\ v # "aux" THEN c[v][i] ELSE o[v][i]]]

\* "for i in range(vs,ve): var_old[i] = var[i]; df_old[i] = df[i];
\* f_old[i] = f[i]; aux_old[i] = aux[i]"
Commit(c, o, rg) ==
    [v \in VecNames |-> [i \in dofs |->
        IF rg.vs <= i /\ i < rg.ve THEN c[v][i] ELSE o[v][i]]]

\* a call update(var, df, f, var_old, df_old, f_old, aux, aux_old)
Update ==
    /\ old' = Commit(cur, old, own)
    /\ u_op' = "update"
    /\ UNCHANGED <<cur, own>>
    /\ UNCHANGED <<newtonVars, lumpedVars, linVars, cycleVars, pertVars>>
    /\ UNCHANGED <<localVars, parVars, solveVars, cplVars, iniVars, outVars, mzVars, ptcVars>>

\* the solution of the next time step moves one entry of a current vector
TimeStep ==
    /\ \E v \in VecNames, i \in dofs, e \in Entries :
          /\ e # cur[v][i]
          /\ cur' = [cur EXCEPT ![v][i] = e]
    /\ u_op' = "step"
    /\ UNCHANGED <<old, own>>
    /\ UNCHANGED <<newtonVars, lumpedVars, linVars, cycleVars, pertVars>>
    /\ UNCHANGED <<localVars, parVars, solveVars, cplVars, iniVars, outVars, mzVars, ptcVars>>

InitUpdate ==
    /\ IdleNewton
    /\ x = ZeroVec /\ r = ZeroVec /\ K = ZeroMat
    /\ xs = 0 /\ xe = numdof
    /\ op = "none" /\ a_idx = 0 /\ a_val = 0
    /\ IdleLin /\ IdleCycle /\ IdlePert
    /\ IdleLocal /\ IdlePar /\ IdleSolve /\ IdleCoupling /\ IdleIni /\ IdleOut /\ IdleMz /\ IdlePTC
    /\ cur = [v \in VecNames |-> ZeroVec]
    /\ old = [v \in VecNames |-> ZeroVec]
    /\ own \in OwnRanges
    /\ u_op = "none"

NextUpdate == Update \/ TimeStep

SpecUpdate == InitUpdate /\ [][NextUpdate]_vars

\* C25: after update every entry of the owned range of var_old, df_old,
\* f_old and aux_old equals the entry of var, df, f and aux, whatever the
\* vectors held, the current vectors are as before, and the entries outside
\* the owned range are as before.
C25_UpdateCommits ==
    [][ u_op' = "update" =>
          /\ \A v \in VecNames : \A i \in dofs :
                old'[v][i] = IF own.vs <= i /\ i < own.ve THEN cur[v][i] ELSE old[v][i]
          /\ cur' = cur ]_vars

\* an update that overwrote old entries of all four vectors
C25_Witness ==
    /\ u_op = "update" /\ own = [vs |-> 0, ve |-> numdof]
    /\ \A v \in VecNames : old[v] = cur[v] /\ cur[v][0] = 1 /\ cur[v][1] = 0

=============================================================================
